---- MODULE Spec2Model ----
(***************************************************************************)
(* A model of the analytics rules of the game-review dashboard             *)
(* (src/Main.py and src/pages/*.py).                                       *)
(*                                                                         *)
(* Text is modelled as a sequence of one-character strings, so that        *)
(* strip, replace, split, startswith and the literal parser are computed   *)
(* character by character, as Python computes them.  A Python value is a   *)
(* record [t, s, items]: t is its type tag, s its characters (a str) and   *)
(* items its elements (a list or tuple); the unused field is <<>>.         *)
(*                                                                         *)
(* Each component has its own specification over the shared variables;     *)
(* the variables of the other components stay at their idle values.        *)
(***************************************************************************)
EXTENDS Integers, Sequences, FiniteSets, TLC

VARIABLES
    \* robust list parse (Overview.robust_eval_list)
    logical,    \* the logical keyword list the upstream pipeline holds
    enc,        \* how that list was written into the cell
    val,        \* the cell value handed to robust_eval_list
    result,     \* what robust_eval_list did with it
    lpc,        \* position of the list-parse scenario
    \* Review Explorer: load_data
    files,      \* the candidate files of the latest data folder, in order
    xdf,        \* the DataFrame load_data returned
    xpc,        \* position of the Explorer scenario
    \* Overview: score coercion and sentiment labelling
    scols,      \* which of the columns sentiment, sentiment_label, score exist
    sraw,       \* the rows as loaded
    sdf,        \* the page's DataFrame (score, sentiment_label)
    spc,        \* position of the page script
    \* Overview: keyword consolidation
    kwRaw,      \* a keyword of the exploded kw_list
    kwOnce,     \* the keyword after normalize_kw_display
    kwTwice,    \* the consolidated keyword consolidated again
    kpc,        \* position of the consolidation scenario
    \* Main.load_data and the Overview's Cluster Impact Matrix
    ccols,      \* whether the CSV has a cluster column
    craw,       \* the rows of the CSV
    cluster_df, \* st.session_state["cluster_df"]
    c_df,       \* the Overview's rows that enter the aggregation
    base_stats, \* one row per cluster
    cluster_stats, \* the clusters selected for display
    cpc,        \* position: the CSV, Main loaded it, the Overview ran
    \* Overview: topic hierarchy (plot_full_width_treemap)
    t_rows,     \* the page's rows: sentiment_label, topic, primary_keyword
    sent_label, \* the sentiment class of the treemap drawn
    tree_data,  \* the (topic, primary_keyword, count) rows handed to the treemap
    tpc,        \* position of the treemap scenario
    \* Overview: sentiment trend by version
    v_rows,     \* the page's rows as runs of reviews of one version at one time
    ver_order,  \* the versions in display order
    trend_df,   \* the per-version volume trend
    s_trend,    \* the per-version average sentiment score
    vpc,        \* position of the version trend scenario
    \* Version Trends page: the delta insight
    trend_file, \* st.session_state["trend_df"]: the rows of version_trend.csv
    num_versions, \* the slider of the Version Trends page
    waterfall,  \* the values of the page's waterfall chart
    filtered_trend_df, \* the rows the page shows, oldest of them first
    dpc,        \* position of the Version Trends scenario
    \* Update Impact Checker page
    i_rows,     \* the session's rows as runs of n equal reviews: content, score, day
    release_text, \* st.session_state["release_text"]
    update_date, \* the day chosen as the update date
    before_df,  \* the reviews before the update date
    after_df,   \* the reviews from the update date on
    impact_df,  \* one row per change: counts, averages, impact_score
    ipc,        \* how the Update Impact page ended
    \* Overview: keyword frequencies per sentiment and the primary keyword
    f_rows,     \* the page's rows: sentiment_label and the keywords cell
    primary_keyword, \* df["primary_keyword"], one value per row
    kw_df,      \* the exploded, consolidated and stop-filtered rows (sentiment_label, kw_list)
    top_k,      \* per sentiment class, the keywords charted with their counts
    fpc,        \* position of the keyword-frequency scenario
    \* Main.load_data's cluster_info and the Overview's cluster labels
    l_cols,     \* whether the CSV has a keywords column
    l_rows,     \* the rows Main loaded, as runs of n equal reviews: cluster, keywords
    cluster_info, \* st.session_state["cluster_info"]: per cluster its top keywords
    keywords_label, \* base_stats["keywords_label"], per cluster of the aggregate
    lbpc,       \* position: the CSV, Main loaded it, the Overview labelled the clusters
    \* Main's session keys and the navigation buttons of the pages
    folders,    \* the data folders by date: which main file, trend file and diagnosis report each holds
    selected_date, \* the date chosen in Main's sidebar
    session,    \* st.session_state: the navigation keys, current_date and the data keys
    event       \* the last run or button: its kind and its argument

listVars == <<logical, enc, val, result, lpc>>
explorerVars == <<files, xdf, xpc>>
sentVars == <<scols, sraw, sdf, spc>>
kwVars == <<kwRaw, kwOnce, kwTwice, kpc>>
clusterVars == <<ccols, craw, cluster_df, c_df, base_stats, cluster_stats, cpc>>
topicVars == <<t_rows, sent_label, tree_data, tpc>>
versionVars == <<v_rows, ver_order, trend_df, s_trend, vpc>>
deltaVars == <<trend_file, num_versions, filtered_trend_df, waterfall, dpc>>
impactVars == <<i_rows, release_text, update_date, before_df, after_df, impact_df, ipc>>
freqVars == <<f_rows, primary_keyword, kw_df, top_k, fpc>>
labelVars == <<l_cols, l_rows, cluster_info, keywords_label, lbpc>>
sessionVars == <<folders, selected_date, session, event>>

vars ==
    <<listVars, explorerVars, sentVars, kwVars, clusterVars, topicVars,
      versionVars, deltaVars, impactVars, freqVars, labelVars, sessionVars>>

\* what the actions of one component leave alone
notList ==
    <<explorerVars, sentVars, kwVars, clusterVars, topicVars, versionVars,
      deltaVars, impactVars, freqVars, labelVars, sessionVars>>
notExplorer ==
    <<listVars, sentVars, kwVars, clusterVars, topicVars, versionVars,
      deltaVars, impactVars, freqVars, labelVars, sessionVars>>
notSent ==
    <<listVars, explorerVars, kwVars, clusterVars, topicVars, versionVars,
      deltaVars, impactVars, freqVars, labelVars, sessionVars>>
notKw ==
    <<listVars, explorerVars, sentVars, clusterVars, topicVars,
      versionVars, deltaVars, impactVars, freqVars, labelVars, sessionVars>>
notCluster ==
    <<listVars, explorerVars, sentVars, kwVars, topicVars, versionVars,
      deltaVars, impactVars, freqVars, labelVars, sessionVars>>
notTopic ==
    <<listVars, explorerVars, sentVars, kwVars, clusterVars, versionVars,
      deltaVars, impactVars, freqVars, labelVars, sessionVars>>
notVersion ==
    <<listVars, explorerVars, sentVars, kwVars, clusterVars, topicVars,
      deltaVars, impactVars, freqVars, labelVars, sessionVars>>
notDelta ==
    <<listVars, explorerVars, sentVars, kwVars, clusterVars, topicVars,
      versionVars, impactVars, freqVars, labelVars, sessionVars>>
notImpact ==
    <<listVars, explorerVars, sentVars, kwVars, clusterVars, topicVars,
      versionVars, deltaVars, freqVars, labelVars, sessionVars>>
notFreq ==
    <<listVars, explorerVars, sentVars, kwVars, clusterVars, topicVars,
      versionVars, deltaVars, impactVars, labelVars, sessionVars>>
notLabel ==
    <<listVars, explorerVars, sentVars, kwVars, clusterVars, topicVars,
      versionVars, deltaVars, impactVars, freqVars, sessionVars>>
notSession ==
    <<listVars, explorerVars, sentVars, kwVars, clusterVars, topicVars,
      versionVars, deltaVars, impactVars, freqVars, labelVars>>

----------------------------------------------------------------------------
(* Bounds *)

\* longest keyword token of a logical list
MaxTokLen == 2
\* most tokens in a logical list
MaxListLen == 2
\* longest arbitrary cell text
MaxRawLen == 4
\* most rows of a file the Review Explorer loads
MaxFileRows == 2
\* most rows of the dataset whose sentiment is labelled
MaxSentRows == 2
\* most blanks or tabs put around and inside a keyword
MaxBlanks == 2
\* most rows of a freely chosen clustered dataset
MaxRows == 2
\* most clusters of a dataset with one row per cluster
MaxClusters == 6
\* most rows of the dataset whose topic hierarchy is drawn
MaxTopicRows == 4
\* most runs of a dataset whose versions are ordered
MaxVersionRuns == 3
\* most versions of a freely chosen version trend
MaxAggregates == 3
\* most runs of a freely chosen dataset of the Update Impact page
MaxImpactRows == 2
\* most rows of the dataset whose keyword frequencies are charted
MaxFreqRows == 2
\* most runs of a freely chosen dataset whose clusters are labelled
MaxLabelRuns == 2

----------------------------------------------------------------------------
(* Characters and Python values *)

SP == " "
TAB == "\t"
QUOTE == "'"
DQUOTE == "\""
LBRACK == "["
RBRACK == "]"
COMMA == ","

\* str.strip() removes these; the text modelled holds no other whitespace
Whitespace == {SP, TAB}

StrVal(chars) == [t |-> "str", s |-> chars, items |-> <<>>]
ListVal(elems) == [t |-> "list", s |-> <<>>, items |-> elems]
TupleVal(elems) == [t |-> "tuple", s |-> <<>>, items |-> elems]
\* a missing cell: pandas reads it as float NaN
NaN == [t |-> "nan", s |-> <<>>, items |-> <<>>]

RECURSIVE MapStrVal(_)
\* a Python list of str from a sequence of character sequences
MapStrVal(toks) ==
    IF toks = <<>> THEN <<>>
    ELSE <<StrVal(Head(toks))>> \o MapStrVal(Tail(toks))

StrList(toks) == ListVal(MapStrVal(toks))

RECURSIVE LStrip(_)
LStrip(s) ==
    IF s # <<>> /\ Head(s) \in Whitespace THEN LStrip(Tail(s)) ELSE s

RECURSIVE RStrip(_)
RStrip(s) ==
    IF s # <<>> /\ s[Len(s)] \in Whitespace
    THEN RStrip(SubSeq(s, 1, Len(s) - 1))
    ELSE s

\* str.strip()
Strip(s) == RStrip(LStrip(s))

RECURSIVE RemoveChars(_, _)
\* chained str.replace(c, "") for every c of drop
RemoveChars(s, drop) ==
    IF s = <<>> THEN <<>>
    ELSE IF Head(s) \in drop THEN RemoveChars(Tail(s), drop)
    ELSE <<Head(s)>> \o RemoveChars(Tail(s), drop)

RECURSIVE SplitAcc(_, _, _)
SplitAcc(s, sep, cur) ==
    IF s = <<>> THEN <<cur>>
    ELSE IF Head(s) = sep THEN <<cur>> \o SplitAcc(Tail(s), sep, <<>>)
    ELSE SplitAcc(Tail(s), sep, Append(cur, Head(s)))

\* str.split(sep): always at least one piece, empty pieces kept
Split(s, sep) == SplitAcc(s, sep, <<>>)

StartsWith(s, p) == Len(s) >= Len(p) /\ SubSeq(s, 1, Len(p)) = p
EndsWith(s, p) == Len(s) >= Len(p) /\ SubSeq(s, Len(s) - Len(p) + 1, Len(s)) = p

RECURSIVE Join(_, _)
\* sep.join(toks)
Join(toks, sep) ==
    IF toks = <<>> THEN <<>>
    ELSE IF Len(toks) = 1 THEN Head(toks)
    ELSE Head(toks) \o sep \o Join(Tail(toks), sep)

RECURSIVE QuoteAll(_)
QuoteAll(toks) ==
    IF toks = <<>> THEN <<>>
    ELSE <<(<<QUOTE>> \o Head(toks) \o <<QUOTE>>)>> \o QuoteAll(Tail(toks))

\* repr() of a list of str holding no quote or backslash: "['a', 'x']",
\* the form in which the upstream pipeline's CSV holds a list column
Repr(toks) == <<LBRACK>> \o Join(QuoteAll(toks), <<COMMA, SP>>) \o <<RBRACK>>

----------------------------------------------------------------------------
(* ast.literal_eval on the text the cells can hold: list displays, string  *)
(* literals (single, double or triple quoted, adjacent literals            *)
(* concatenated) and a top-level tuple.  Anything else (a name, a          *)
(* subscript, an unclosed bracket or quote) raises.                        *)

Quotes == {QUOTE, DQUOTE}

ParseFail == [ok |-> FALSE, val |-> NaN, next |-> 0]
ParseOk(v, n) == [ok |-> TRUE, val |-> v, next |-> n]

RECURSIVE SkipWs(_, _)
\* the first position from i on that holds no blank
SkipWs(s, i) == IF i <= Len(s) /\ s[i] \in {SP, TAB} THEN SkipWs(s, i + 1) ELSE i

RECURSIVE FindChar(_, _, _)
\* the first position from i on that holds c, or 0
FindChar(s, i, c) ==
    IF i > Len(s) THEN 0
    ELSE IF s[i] = c THEN i
    ELSE FindChar(s, i + 1, c)

RECURSIVE FindTriple(_, _, _)
\* the first position from i on where three c begin, or 0
FindTriple(s, i, c) ==
    IF i + 2 > Len(s) THEN 0
    ELSE IF s[i] = c /\ s[i + 1] = c /\ s[i + 2] = c THEN i
    ELSE FindTriple(s, i + 1, c)

\* one string literal starting at the quote s[i]
ParseStr(s, i) ==
    LET q == s[i]
        triple == i + 2 <= Len(s) /\ s[i + 1] = q /\ s[i + 2] = q
    IN  IF triple
        THEN LET j == FindTriple(s, i + 3, q)
             IN  IF j = 0 THEN ParseFail
                 ELSE ParseOk(StrVal(SubSeq(s, i + 3, j - 1)), j + 3)
        ELSE LET j == FindChar(s, i + 1, q)
             IN  IF j = 0 THEN ParseFail
                 ELSE ParseOk(StrVal(SubSeq(s, i + 1, j - 1)), j + 1)

RECURSIVE ParseStrCat(_, _, _)
\* adjacent string literals, concatenated
ParseStrCat(s, i, acc) ==
    LET r == ParseStr(s, i)
    IN  IF ~r.ok THEN ParseFail
        ELSE LET k == SkipWs(s, r.next)
                 sofar == acc \o r.val.s
             IN  IF k <= Len(s) /\ s[k] \in Quotes
                 THEN ParseStrCat(s, k, sofar)
                 ELSE ParseOk(StrVal(sofar), r.next)

RECURSIVE ParseAtom(_, _)
RECURSIVE ParseItems(_, _, _)

\* a list display or a string, starting at s[i]
ParseAtom(s, i) ==
    IF i > Len(s) THEN ParseFail
    ELSE IF s[i] = LBRACK THEN ParseItems(s, SkipWs(s, i + 1), <<>>)
    ELSE IF s[i] \in Quotes THEN ParseStrCat(s, i, <<>>)
    ELSE ParseFail

\* the elements of a list display up to its closing bracket; j is past the
\* opening bracket or past a comma
ParseItems(s, j, acc) ==
    IF j > Len(s) THEN ParseFail
    ELSE IF s[j] = RBRACK THEN ParseOk(ListVal(acc), j + 1)
    ELSE LET a == ParseAtom(s, j)
         IN  IF ~a.ok THEN ParseFail
             ELSE LET k == SkipWs(s, a.next)
                  IN  IF k > Len(s) THEN ParseFail
                      ELSE IF s[k] = COMMA
                      THEN ParseItems(s, SkipWs(s, k + 1), Append(acc, a.val))
                      ELSE IF s[k] = RBRACK
                      THEN ParseOk(ListVal(Append(acc, a.val)), k + 1)
                      ELSE ParseFail

RECURSIVE ParseTuple(_, _, _)
\* the rest of a top-level tuple; j is past a comma
ParseTuple(s, j, acc) ==
    IF j > Len(s) THEN ParseOk(TupleVal(acc), j)
    ELSE LET a == ParseAtom(s, j)
         IN  IF ~a.ok THEN ParseFail
             ELSE LET k == SkipWs(s, a.next)
                  IN  IF k > Len(s) THEN ParseOk(TupleVal(Append(acc, a.val)), k)
                      ELSE IF s[k] = COMMA
                      THEN ParseTuple(s, SkipWs(s, k + 1), Append(acc, a.val))
                      ELSE ParseFail

\* ast.literal_eval(s): [ok, val]; ok = FALSE when it raises
LiteralEval(s) ==
    LET a == ParseAtom(s, SkipWs(s, 1))
    IN  IF ~a.ok THEN ParseFail
        ELSE LET k == SkipWs(s, a.next)
             IN  IF k > Len(s) THEN a
                 ELSE IF s[k] = COMMA
                 THEN ParseTuple(s, SkipWs(s, k + 1), <<a.val>>)
                 ELSE ParseFail

----------------------------------------------------------------------------
(* Overview: robust_eval_list *)

Raise == [kind |-> "raise", value |-> NaN]
Return(v) == [kind |-> "return", value |-> v]
NoResult == [kind |-> "none", value |-> NaN]

RECURSIVE StripAllNonEmpty(_)
\* [x.strip() for x in pieces if x.strip()]
StripAllNonEmpty(pieces) ==
    IF pieces = <<>> THEN <<>>
    ELSE LET x == Strip(Head(pieces))
         IN  (IF x # <<>> THEN <<x>> ELSE <<>>) \o StripAllNonEmpty(Tail(pieces))

\* the string-split heuristic: drop brackets and quotes, split on commas,
\* trim, drop empty tokens
SplitHeuristic(s) ==
    StripAllNonEmpty(Split(RemoveChars(s, {LBRACK, RBRACK, QUOTE, DQUOTE}), COMMA))

\* `if pd.isna(val)`: for a list pd.isna gives an array, whose truth value
\* is its element's for one element, an error for more than one, and for
\* none False or an error according to the NumPy installed (emptyRaises).
\* "raise", "true" or "false".
IsNaTruth(v, emptyRaises) ==
    IF v.t = "nan" THEN "true"
    ELSE IF v.t = "list"
    THEN IF Len(v.items) > 1 THEN "raise"
         ELSE IF Len(v.items) = 0
         THEN (IF emptyRaises THEN "raise" ELSE "false")
         ELSE (IF v.items[1].t = "nan" THEN "true" ELSE "false")
    ELSE "false"

robust_eval_list(v, emptyRaises) ==
    LET na == IsNaTruth(v, emptyRaises)
    IN  IF na = "raise" THEN Raise
        ELSE IF na = "true" \/ (v.t = "str" /\ v.s = <<>>) THEN Return(ListVal(<<>>))
        ELSE IF v.t = "list" THEN Return(v)
        ELSE IF v.t = "str"
        THEN LET s == Strip(v.s)
                 lit == LiteralEval(s)
             IN  IF s = <<LBRACK, RBRACK>> THEN Return(ListVal(<<>>))
                 ELSE IF StartsWith(s, <<LBRACK>>) /\ EndsWith(s, <<RBRACK>>) /\ lit.ok
                 THEN Return(lit.val)
                 ELSE Return(StrList(SplitHeuristic(s)))
        ELSE Return(ListVal(<<>>))

----------------------------------------------------------------------------
(* The list-parse scenario: the upstream pipeline holds a logical keyword  *)
(* list, writes it into a cell in one of its encodings, and the Overview   *)
(* page parses the cell.                                                   *)

Letters == {"a", "x"}

\* every sequence over chars of length at most n
SeqsUpTo(chars, n) == UNION {[1..k -> chars] : k \in 0..n}

\* keyword tokens: one word, or two one-letter words with a blank between
Tokens ==
    (SeqsUpTo(Letters, MaxTokLen) \ {<<>>})
        \cup {<<l1, SP, l2>> : l1 \in Letters, l2 \in Letters}

LogicalLists == UNION {[1..k -> Tokens] : k \in 0..MaxListLen}

RawChars == {"a", SP, COMMA, LBRACK, RBRACK, QUOTE}

\* s without its i-th character
DeleteAt(s, i) == SubSeq(s, 1, i - 1) \o SubSeq(s, i + 1, Len(s))

ListIdle ==
    /\ logical = <<>>
    /\ enc = "none"
    /\ val = NaN
    /\ result = NoResult
    /\ lpc = "idle"

ListInit ==
    /\ logical \in LogicalLists
    /\ enc = "none"
    /\ val = NaN
    /\ result = NoResult
    /\ lpc = "upstream"

\* the caller hands the list itself
WriteNative ==
    /\ lpc = "upstream"
    /\ enc' = "native"
    /\ val' = StrList(logical)
    /\ lpc' = "cell"
    /\ UNCHANGED <<logical, result, notList>>

\* the cell holds the list's repr, as a CSV written from a list column does
WriteSerialized ==
    /\ lpc = "upstream"
    /\ enc' = "serialized"
    /\ val' = StrVal(Repr(logical))
    /\ lpc' = "cell"
    /\ UNCHANGED <<logical, result, notList>>

\* the cell holds the tokens joined by commas, no brackets
WriteDelimited ==
    /\ lpc = "upstream"
    /\ \E sep \in {<<COMMA>>, <<COMMA, SP>>} :
          val' = StrVal(Join(logical, sep))
    /\ enc' = "delimited"
    /\ lpc' = "cell"
    /\ UNCHANGED <<logical, result, notList>>

\* the cell holds the repr with one inner character lost: it still starts
\* with "[" and ends with "]"
WriteDamaged ==
    /\ lpc = "upstream"
    /\ \E i \in 2..(Len(Repr(logical)) - 1) :
          val' = StrVal(DeleteAt(Repr(logical), i))
    /\ enc' = "damaged"
    /\ lpc' = "cell"
    /\ UNCHANGED <<logical, result, notList>>

\* the cell holds arbitrary short text, or nothing
WriteRaw ==
    /\ lpc = "upstream"
    /\ logical = <<>>
    /\ \/ \E s \in SeqsUpTo(RawChars, MaxRawLen) : val' = StrVal(s)
       \/ val' = NaN
    /\ enc' = "raw"
    /\ lpc' = "cell"
    /\ UNCHANGED <<logical, result, notList>>

\* kw_df["keywords"].apply(robust_eval_list), one cell
RobustEvalList ==
    /\ lpc = "cell"
    /\ \E emptyRaises \in BOOLEAN : result' = robust_eval_list(val, emptyRaises)
    /\ lpc' = "parsed"
    /\ UNCHANGED <<logical, enc, val, notList>>

ListNext ==
    \/ WriteNative
    \/ WriteSerialized
    \/ WriteDelimited
    \/ WriteDamaged
    \/ WriteRaw
    \/ RobustEvalList

\* C1: for every logical keyword list, robust_eval_list returns that same
\* sequence whether the list arrives as a native list, as its serialized
\* form or as a comma-delimited string without brackets.
C1_EveryEncodingParsesToTheSameSequence ==
    (lpc = "parsed" /\ enc \in {"native", "serialized", "delimited"})
        => result = Return(StrList(logical))

----------------------------------------------------------------------------
(* Review Explorer: load_data.  Of each file only the columns the loader   *)
(* can fail on are kept: "at" (rows without a date are dropped first) and  *)
(* the list column "keywords".                                             *)

\* the candidate files of the latest folder, in the order they are tried
ExplorerPaths ==
    <<"analyzed_refined.csv", "clustered.csv", "analyzed.csv", "preprocessed.csv">>

NoFile == [exists |-> FALSE, rows |-> <<>>]
File(rows) == [exists |-> TRUE, rows |-> rows]

\* what a keywords cell of a file can hold: a well-formed list, a list with
\* its closing quote lost, a comma-delimited string
ExplorerCells ==
    { StrVal(Repr(<< <<"a">> >>)),
      StrVal(DeleteAt(Repr(<< <<"a">> >>), 4)),
      StrVal(<<"a", COMMA, "x">>) }

ExplorerRows == [at_ok : BOOLEAN, keywords : ExplorerCells]

ExplorerFiles ==
    {NoFile} \cup {File(rs) : rs \in UNION {[1..k -> ExplorerRows] : k \in 0..MaxFileRows}}

\* a file of one well-formed row
PlainFile == File(<<[at_ok |-> TRUE, keywords |-> StrVal(Repr(<< <<"a">> >>))]>>)

EmptyDataFrame == [path |-> 0, rows |-> <<>>]

RECURSIVE DropNaAt(_)
\* df.dropna(subset=["at"])
DropNaAt(rows) ==
    IF rows = <<>> THEN <<>>
    ELSE (IF Head(rows).at_ok THEN <<Head(rows)>> ELSE <<>>) \o DropNaAt(Tail(rows))

\* lambda x: ast.literal_eval(x) if isinstance(x, str) and x.startswith("[") else []
\* [ok, val]: ok = FALSE when literal_eval raises
ExplorerParseCell(x) ==
    IF x.t = "str" /\ StartsWith(x.s, <<LBRACK>>)
    THEN LiteralEval(x.s)
    ELSE ParseOk(ListVal(<<>>), 0)

\* df[col].apply(...): the parsed rows, valid only when no cell raised
ExplorerParseRows(rows) ==
    [i \in 1..Len(rows) |->
        [at_ok |-> rows[i].at_ok, keywords |-> ExplorerParseCell(rows[i].keywords).val]]

ExplorerRaises(rows) ==
    \E i \in 1..Len(rows) : ~ExplorerParseCell(rows[i].keywords).ok

RECURSIVE load_data_from(_, _)
\* the loop over the candidate paths from p on: the first file that exists
\* and loads without an exception is returned; an exception is swallowed
\* and the next path tried; with none left, an empty DataFrame
load_data_from(fs, p) ==
    IF p > Len(ExplorerPaths) THEN EmptyDataFrame
    ELSE IF ~fs[p].exists THEN load_data_from(fs, p + 1)
    ELSE LET kept == DropNaAt(fs[p].rows)
         IN  IF ExplorerRaises(kept) THEN load_data_from(fs, p + 1)
             ELSE [path |-> p, rows |-> ExplorerParseRows(kept)]

ExplorerIdle ==
    /\ files = <<>>
    /\ xdf = EmptyDataFrame
    /\ xpc = "idle"

ExplorerInit ==
    /\ files \in {<<f1, f2, f3, f4>> :
                    f1 \in ExplorerFiles, f2 \in ExplorerFiles,
                    f3 \in {NoFile, PlainFile}, f4 \in {NoFile, PlainFile}}
    /\ xdf = EmptyDataFrame
    /\ xpc = "start"

\* df = load_data()
ExplorerLoadData ==
    /\ xpc = "start"
    /\ xdf' = load_data_from(files, 1)
    /\ xpc' = "loaded"
    /\ UNCHANGED <<files, notExplorer>>

\* the page proceeds with the DataFrame; with an empty one it reports that
\* no data was found and stops
ExplorerShow ==
    /\ xpc = "loaded"
    /\ xpc' = IF xdf.rows = <<>> THEN "no_data" ELSE "shown"
    /\ UNCHANGED <<files, xdf, notExplorer>>

ExplorerNext ==
    \/ ExplorerLoadData
    \/ ExplorerShow

\* the first candidate file that exists, or 0
FirstExisting(fs) ==
    IF \E p \in 1..Len(fs) : fs[p].exists
    THEN CHOOSE p \in 1..Len(fs) : fs[p].exists /\ \A q \in 1..(p - 1) : ~fs[q].exists
    ELSE 0

\* a cell that looks like a serialized list but does not parse
Malformed(x) ==
    x.t = "str" /\ StartsWith(x.s, <<LBRACK>>) /\ ~LiteralEval(x.s).ok

\* C2: a list cell that looks like a serialized list but fails structured
\* parsing never raises out of the loader and degrades to the string-split
\* heuristic, so the Explorer's DataFrame is the first existing file with
\* every dated record kept.
C2_MalformedListNeverDiscardsRecordOrFile ==
    (xpc = "loaded" /\ FirstExisting(files) # 0) =>
        LET p == FirstExisting(files)
            kept == DropNaAt(files[p].rows)
        IN  /\ xdf.path = p
            /\ Len(xdf.rows) = Len(kept)
            /\ \A i \in 1..Len(kept) :
                  Malformed(kept[i].keywords) =>
                      xdf.rows[i].keywords = StrList(SplitHeuristic(kept[i].keywords.s))

----------------------------------------------------------------------------
(* Overview: score coercion (lines 37-38) and sentiment labelling (lines   *)
(* 41-44, 87-97).  A Hangul syllable is one character, written here by its *)
(* romanization: "geung","jeong" is the sentiment value for positive,      *)
(* "bu","jeong" the one for negative.                                      *)

POSITIVE_KO == <<"geung", "jeong">>
NEGATIVE_KO == <<"bu", "jeong">>
NEUTRAL_KO == <<"jung", "rip">>

\* a null sentiment_label
Null == "<NA>"

\* a score cell: a number, or text that is no number
NumCell(n) == [num |-> TRUE, v |-> n]
BadCell == [num |-> FALSE, v |-> 0]

\* pd.to_numeric(errors="coerce").fillna(0).astype(int)
CoerceScore(c) == IF c.num THEN c.v ELSE 0

\* str(x) of a cell
PyStr(x) == IF x.t = "nan" THEN <<"n", "a", "n">> ELSE x.s

classify_sentiment_fallback(score) ==
    IF score >= 4 THEN "Positive"
    ELSE IF score = 3 THEN "Neutral"
    ELSE "Negative"

map_sentiment(s) ==
    LET str == Strip(PyStr(s))
    IN  IF str = POSITIVE_KO THEN "Positive"
        ELSE IF str = NEGATIVE_KO THEN "Negative"
        ELSE "Neutral"

SentimentCells ==
    { StrVal(POSITIVE_KO), StrVal(<<SP>> \o POSITIVE_KO \o <<SP>>),
      StrVal(NEGATIVE_KO), StrVal(NEUTRAL_KO), NaN }

LabelCells == {"Positive", "geungjeong", Null}

ScoreCells == {NumCell(n) : n \in 2..5} \cup {BadCell}

\* the rows a dataset with the given columns can hold; a column that does
\* not exist has one placeholder value
SentRows(cols) ==
    [ sentiment : IF cols.sentiment THEN SentimentCells ELSE {NaN},
      sentiment_label : IF cols.sentiment_label THEN LabelCells ELSE {Null},
      score : IF cols.score THEN ScoreCells ELSE {BadCell} ]

SentCols == [sentiment : BOOLEAN, sentiment_label : BOOLEAN, score : BOOLEAN]

\* three rows scored 5, 2, 3 whose sentiment is null: the column is missing
\* or holds no value
ScenarioRows ==
    [i \in 1..3 |->
        [sentiment |-> NaN, sentiment_label |-> Null,
         score |-> NumCell(<<5, 2, 3>>[i])]]

SentIdle ==
    /\ scols = [sentiment |-> FALSE, sentiment_label |-> FALSE, score |-> FALSE]
    /\ sraw = <<>>
    /\ sdf = <<>>
    /\ spc = "idle"

SentInit ==
    /\ scols \in SentCols
    /\ \/ sraw \in UNION {[1..k -> SentRows(scols)] : k \in 0..MaxSentRows}
       \/ /\ scols.score /\ ~scols.sentiment_label
          /\ sraw = ScenarioRows
    /\ sdf = <<>>
    /\ spc = "start"

\* if "score" in df.columns: df["score"] = pd.to_numeric(...).fillna(0).astype(int)
PreprocessScore ==
    /\ spc = "start"
    /\ sdf' = [i \in 1..Len(sraw) |->
                  [score |-> IF scols.score THEN CoerceScore(sraw[i].score) ELSE 0,
                   sentiment_label |-> sraw[i].sentiment_label]]
    /\ spc' = "scored"
    /\ UNCHANGED <<scols, sraw, notSent>>

\* lines 87-97: the label comes from the sentiment column when it exists;
\* else an existing sentiment_label column is kept as it is; else the label
\* comes from the score, and df["score"] raises KeyError without the column
LabelSentiment ==
    /\ spc = "scored"
    /\ IF scols.sentiment
       THEN /\ sdf' = [i \in 1..Len(sdf) |->
                          [sdf[i] EXCEPT !.sentiment_label = map_sentiment(sraw[i].sentiment)]]
            /\ spc' = "labelled"
       ELSE IF ~scols.sentiment_label
       THEN IF scols.score
            THEN /\ sdf' = [i \in 1..Len(sdf) |->
                               [sdf[i] EXCEPT !.sentiment_label =
                                   classify_sentiment_fallback(sdf[i].score)]]
                 /\ spc' = "labelled"
            ELSE /\ spc' = "crashed"
                 /\ UNCHANGED sdf
       ELSE /\ spc' = "labelled"
            /\ UNCHANGED sdf
    /\ UNCHANGED <<scols, sraw, notSent>>

SentNext ==
    \/ PreprocessScore
    \/ LabelSentiment

SentimentLabels == {"Positive", "Neutral", "Negative"}

\* the record has no explicit sentiment value
SentimentIsNull(i) == ~scols.sentiment \/ sraw[i].sentiment = NaN

\* C3: a record with a (numeric) score whose explicit sentiment value is
\* null is labelled from its score by the fallback classification (>= 4
\* Positive, = 3 Neutral, <= 2 Negative); scores 5, 2, 3 give Positive,
\* Negative, Neutral.
C3_NullSentimentIsLabelledFromScore ==
    (spc = "labelled" /\ scols.score /\ ~scols.sentiment_label) =>
        \A i \in 1..Len(sraw) :
            (SentimentIsNull(i) /\ sraw[i].score.num) =>
                sdf[i].sentiment_label =
                    (IF sdf[i].score >= 4 THEN "Positive"
                     ELSE IF sdf[i].score = 3 THEN "Neutral"
                     ELSE "Negative")

\* C4: once the score or the sentiment column is present, sentiment
\* resolution ends with every record's sentiment_label one of Positive,
\* Neutral, Negative, never null, whether or not a sentiment_label column
\* came with the data: from the trimmed sentiment value when there is a
\* sentiment column, else from the score.
C4_LabelIsAlwaysOneOfThree ==
    (spc \in {"labelled", "crashed"} /\ (scols.score \/ scols.sentiment)) =>
        /\ spc = "labelled"
        /\ \A i \in 1..Len(sdf) :
              /\ sdf[i].sentiment_label \in SentimentLabels
              /\ sdf[i].sentiment_label =
                    (IF scols.sentiment THEN map_sentiment(sraw[i].sentiment)
                     ELSE classify_sentiment_fallback(sdf[i].score))

----------------------------------------------------------------------------
(* Overview: keyword consolidation (lines 250-274).  The Hangul syllables  *)
(* of the synonym table are written by their romanization, one string per  *)
(* character; "G","a","m","e" are the Latin letters of the key Game.       *)

\* the keys and the canonical labels of map_dict, character by character
KW_JAEMI == <<"jae", "mi">>
KW_GAME == <<"ge", "im">>
KW_UPDATE == <<"eop", "de", "i", "teu">>
KW_TAGYEOKGAM == <<"ta", "gyeok", "gam">>
KW_OPTIMIZE == <<"choe", "jeok", "hwa">>
KW_CHARACTER == <<"kae", "rik", "teo">>
KW_GWAGEUM == <<"gwa", "geum">>
KW_UNYEONG == <<"un", "yeong">>
KW_STORY == <<"seu", "to", "ri">>
KW_ART == <<"ah", "teu", "/", "geu", "rae", "pik">>

\* map_dict with the entry for "peul","re","i" pointing at another key
\* instead of at the canonical label
map_dict_chained ==
    { << <<"jae", "mi", "iss", "neun">>, KW_JAEMI >>,
      << <<"ge", "im", "peul", "re", "i">>, KW_GAME >>,
      << <<"peul", "re", "i">>, <<"ge", "im", "peul", "re", "i">> >>,
      << <<"seu", "to", "ri">>, KW_STORY >> }

\* map_dict: <<key, canonical label>>
map_dict ==
    { << <<"jae", "mi", "iss", "neun">>, KW_JAEMI >>,
      << <<"jae", "miss", "neun">>, KW_JAEMI >>,
      << <<"kkul", "jaem">>, KW_JAEMI >>,
      << <<"jon", "jaem">>, KW_JAEMI >>,
      << <<"jaem">>, KW_JAEMI >>,
      << <<"ge", "im", "peul", "re", "i">>, KW_GAME >>,
      << <<"peul", "re", "i">>, KW_GAME >>,
      << <<"G", "a", "m", "e">>, KW_GAME >>,
      << <<"eop", "det">>, KW_UPDATE >>,
      << <<"pae", "chi">>, KW_UPDATE >>,
      << <<"eop", "geu", "re", "i", "deu">>, KW_UPDATE >>,
      << <<"ta", "gyeok">>, KW_TAGYEOKGAM >>,
      << <<"raek">>, KW_OPTIMIZE >>,
      << <<"rek">>, KW_OPTIMIZE >>,
      << <<"twing", "gim">>, KW_OPTIMIZE >>,
      << <<"bal", "yeol">>, KW_OPTIMIZE >>,
      << <<"beo", "beok">>, KW_OPTIMIZE >>,
      << <<"kkeunh", "gim">>, KW_OPTIMIZE >>,
      << <<"kae", "rik">>, KW_CHARACTER >>,
      << <<"yeo", "kae">>, KW_CHARACTER >>,
      << <<"nam", "kae">>, KW_CHARACTER >>,
      << <<"hyeon", "jil">>, KW_GWAGEUM >>,
      << <<"gwa", "geum", "yu", "do">>, KW_GWAGEUM >>,
      << <<"un", "yeong", "ja">>, KW_UNYEONG >>,
      << <<"gae", "bal", "ja">>, KW_UNYEONG >>,
      << <<"seu", "to", "ri">>, KW_STORY >>,
      << <<"ah", "teu">>, KW_ART >>,
      << <<"geu", "rae", "pik">>, KW_ART >>,
      << <<"il", "reo">>, KW_ART >>,
      << <<"il", "reo", "seu", "teu">>, KW_ART >> }

\* `k in map_dict` and `map_dict[k]`
InMapDict(k) == \E e \in map_dict : e[1] = k
MapDictGet(k) == (CHOOSE e \in map_dict : e[1] = k)[2]

\* normalize_kw_display without the lookup of the form without blanks
normalize_kw_display_raw_only(text) ==
    IF text.t # "str" THEN text
    ELSE LET stripped == Strip(text.s)
         IN  IF InMapDict(stripped) THEN StrVal(MapDictGet(stripped))
             ELSE StrVal(stripped)

\* the keyword is a Python value: only a str is consolidated
normalize_kw_display(text) ==
    IF text.t # "str" THEN text
    ELSE LET stripped == Strip(text.s)
             text_ns == RemoveChars(stripped, {SP})
         IN  IF InMapDict(stripped) THEN StrVal(MapDictGet(stripped))
             ELSE IF InMapDict(text_ns) THEN StrVal(MapDictGet(text_ns))
             ELSE StrVal(stripped)

\* keywords the table does not know
OtherWords == { <<"jae">>, <<"jaem", "mi">>, <<"G", "o", "o", "d">> }

KwWords ==
    {e[1] : e \in map_dict} \cup {e[2] : e \in map_dict} \cup OtherWords

\* s with the character c put in after its first i characters
InsertAt(s, i, c) == SubSeq(s, 1, i) \o <<c>> \o SubSeq(s, i + 1, Len(s))

RECURSIVE Blanked(_, _)
\* the word with at most n blanks or tabs put in, anywhere
Blanked(w, n) ==
    IF n = 0 THEN {w}
    ELSE LET less == Blanked(w, n - 1)
         IN  less \cup UNION {{InsertAt(v, i, c) : i \in 0..Len(v), c \in Whitespace} : v \in less}

\* what a cell of the exploded kw_list can hold: a keyword with blanks, or
\* an element that is no str (a nested list)
KwTokens ==
    {StrVal(v) : v \in UNION {Blanked(w, MaxBlanks) : w \in KwWords}}
        \cup {ListVal(<<>>)}

KwIdle ==
    /\ kwRaw = NaN
    /\ kwOnce = NaN
    /\ kwTwice = NaN
    /\ kpc = "idle"

KwInit ==
    /\ kwRaw \in KwTokens
    /\ kwOnce = NaN
    /\ kwTwice = NaN
    /\ kpc = "start"

\* kw_df["kw_list"].apply(normalize_kw_display)
NormalizeKw ==
    /\ kpc = "start"
    /\ kwOnce' = normalize_kw_display(kwRaw)
    /\ kpc' = "once"
    /\ UNCHANGED <<kwRaw, kwTwice, notKw>>

\* the consolidated keyword goes through normalize_kw_display again
NormalizeKwAgain ==
    /\ kpc = "once"
    /\ kwTwice' = normalize_kw_display(kwOnce)
    /\ kpc' = "twice"
    /\ UNCHANGED <<kwRaw, kwOnce, notKw>>

KwNext ==
    \/ NormalizeKw
    \/ NormalizeKwAgain

\* C5: keyword consolidation is idempotent: consolidating a consolidated
\* keyword gives the same keyword.
C5_ConsolidationIsIdempotent ==
    kpc = "twice" => kwTwice = kwOnce

\* a keyword written with a blank inside was mapped to its canonical label
\* and consolidated again
C5_Witness ==
    /\ kpc = "twice"
    /\ kwRaw = StrVal(<<"kkul", SP, "jaem">>)
    /\ kwOnce = StrVal(KW_JAEMI)

\* C23 as stated: normalize_kw_display looks the trimmed token up in the
\* synonym table, then the trimmed token with its whitespace removed, and
\* gives the trimmed token back when neither is a key; an entry for the
\* trimmed token goes before an entry for the form without whitespace.
C23_LookupRawThenWithoutWhitespace ==
    (kpc \in {"once", "twice"} /\ kwRaw.t = "str") =>
        LET raw == Strip(kwRaw.s)
            noWs == SelectSeq(raw, LAMBDA c : c \notin Whitespace)
            rawEntries == {e \in map_dict : e[1] = raw}
            noWsEntries == {e \in map_dict : e[1] = noWs}
        IN  /\ kwOnce.t = "str"
            /\ rawEntries # {} => \E e \in rawEntries : kwOnce.s = e[2]
            /\ (rawEntries = {} /\ noWsEntries # {}) =>
                  \E e \in noWsEntries : kwOnce.s = e[2]
            /\ (rawEntries = {} /\ noWsEntries = {}) => kwOnce.s = raw

\* C23, amended: normalize_kw_display looks the trimmed token up in the
\* synonym table, then the trimmed token without its space characters
\* (a tab inside the token stays), and gives the trimmed token back when
\* neither is a key; an entry for the trimmed token goes before an entry
\* for the form without spaces.
C23_LookupRawThenWithoutBlanks ==
    (kpc \in {"once", "twice"} /\ kwRaw.t = "str") =>
        LET raw == Strip(kwRaw.s)
            noBlanks == SelectSeq(raw, LAMBDA c : c # SP)
            rawEntries == {e \in map_dict : e[1] = raw}
            noBlankEntries == {e \in map_dict : e[1] = noBlanks}
        IN  /\ kwOnce.t = "str"
            /\ rawEntries # {} => \E e \in rawEntries : kwOnce.s = e[2]
            /\ (rawEntries = {} /\ noBlankEntries # {}) =>
                  \E e \in noBlankEntries : kwOnce.s = e[2]
            /\ (rawEntries = {} /\ noBlankEntries = {}) => kwOnce.s = raw

\* a keyword that is a key only once its blank is removed, with blanks
\* around it
C23_Witness ==
    /\ kpc = "once"
    /\ kwRaw = StrVal(<<SP, "kkul", SP, "jaem">>)
    /\ kwOnce = StrVal(KW_JAEMI)

----------------------------------------------------------------------------
(* Main.load_data (lines 73-87) and the Overview's Cluster Impact Matrix   *)
(* (lines 32-38, 99-103, 135-196).  A CSV row keeps the columns these      *)
(* lines read: cluster (its text, <<>> when the cell is empty), score,     *)
(* intensity, reviewId (present or not) and at (parseable or not).  The    *)
(* columns reviewId, score, intensity, at and categories are taken to      *)
(* exist.  Means are exact fractions [num, den].                           *)

\* head(5)
TopN == 5

Rat(n, d) == [num |-> n, den |-> d]
RatLeq(a, b) == a.num * b.den <= b.num * a.den
RatEq(a, b) == a.num * b.den = b.num * a.den
RatLess(a, b) == a.num * b.den < b.num * a.den

\* the fallback threshold 3.2
RISK_THRESHOLD == Rat(16, 5)

NEG_RISK == "Negative (Risk)"
POS_STRENGTH == "Positive (Strength)"

NOISE == <<"-", "1">>
NAN_TEXT == <<"n", "a", "n">>

Digits == <<"0", "1", "2", "3", "4", "5", "6", "7", "8", "9">>
DigitSet == {Digits[i] : i \in 1..Len(Digits)}

\* the characters of cluster ids, in code point order
CodeOrder == <<"-", ".">> \o Digits \o <<"N", "P", "a", "n">>
Ord(c) == CHOOSE i \in 1..Len(CodeOrder) : CodeOrder[i] = c

RECURSIVE StrLess(_, _)
\* a < b for str
StrLess(a, b) ==
    IF b = <<>> THEN FALSE
    ELSE IF a = <<>> THEN TRUE
    ELSE IF Head(a) = Head(b) THEN StrLess(Tail(a), Tail(b))
    ELSE Ord(Head(a)) < Ord(Head(b))

\* the text of an integer, as pd.read_csv recognizes it
IsIntText(s) ==
    LET body == IF s # <<>> /\ Head(s) = "-" THEN Tail(s) ELSE s
    IN  body # <<>> /\ \A i \in 1..Len(body) : body[i] \in DigitSet

\* the dtype pd.read_csv gives the cluster column: integers only give
\* int64, integers with empty cells (or empty cells only) float64, any
\* other text object
ClusterDtype(rows) ==
    LET cells == {rows[i].cluster : i \in 1..Len(rows)}
    IN  IF \A c \in cells \ {<<>>} : IsIntText(c)
        THEN (IF <<>> \in cells THEN "float64" ELSE "int64")
        ELSE "object"

\* a missing value that stays missing in a column of strings
NA_KEY == <<"<NA>">>

\* .astype(str) of one cell of the column.  An empty cell is NaN: pandas
\* before 3.0 makes it the text "nan", pandas 3.0 keeps it missing
\* (keepsNa).  The requirements pin no version.
AsTypeStr(cell, dtype, keepsNa) ==
    IF cell = <<>> THEN (IF keepsNa THEN NA_KEY ELSE NAN_TEXT)
    ELSE IF dtype = "float64" THEN cell \o <<".", "0">>
    ELSE cell

\* Main lines 80-85: the cluster column is created as "-1" when the CSV has
\* none, and made str
CoerceCluster(rows, hasColumn, keepsNa) ==
    [i \in 1..Len(rows) |->
        [rows[i] EXCEPT !.cluster =
            IF hasColumn THEN AsTypeStr(rows[i].cluster, ClusterDtype(rows), keepsNa)
            ELSE NOISE]]

\* pd.to_numeric(errors="coerce").fillna(1)
CoerceIntensity(c) == IF c.num THEN c.v ELSE 1

RECURSIVE DropNaT(_)
\* df.dropna(subset=["at"])
DropNaT(rows) ==
    IF rows = <<>> THEN <<>>
    ELSE (IF Head(rows).at_ok THEN <<Head(rows)>> ELSE <<>>) \o DropNaT(Tail(rows))

RECURSIVE RowsOfCluster(_, _)
\* df[df["cluster"] == cid]
RowsOfCluster(rows, cid) ==
    IF rows = <<>> THEN <<>>
    ELSE (IF Head(rows).cluster = cid THEN <<Head(rows)>> ELSE <<>>)
             \o RowsOfCluster(Tail(rows), cid)

RECURSIVE RowsNotOfCluster(_, _)
\* df[df["cluster"] != cid]
RowsNotOfCluster(rows, cid) ==
    IF rows = <<>> THEN <<>>
    ELSE (IF Head(rows).cluster # cid THEN <<Head(rows)>> ELSE <<>>)
             \o RowsNotOfCluster(Tail(rows), cid)

\* Overview lines 33-38 and 100-101 on the session's DataFrame: rows
\* without a date are dropped, score and intensity made numbers
OverviewPreprocess(rows) ==
    LET dated == DropNaT(rows)
    IN  [i \in 1..Len(dated) |->
            [cluster |-> dated[i].cluster,
             score |-> CoerceScore(dated[i].score),
             intensity |-> CoerceIntensity(dated[i].intensity),
             reviewId |-> dated[i].reviewId]]

\* c_df[c_df['cluster'].astype(str) != "-1"]
DropNoise(rows) == RowsNotOfCluster(rows, NOISE)

RECURSIVE SumIntensity(_)
SumIntensity(rows) ==
    IF rows = <<>> THEN 0 ELSE Head(rows).intensity + SumIntensity(Tail(rows))

RECURSIVE SumScore(_)
SumScore(rows) ==
    IF rows = <<>> THEN 0 ELSE Head(rows).score + SumScore(Tail(rows))

RECURSIVE CountReviewId(_)
\* the "count" aggregation of the reviewId column: its non-null cells
CountReviewId(rows) ==
    IF rows = <<>> THEN 0
    ELSE (IF Head(rows).reviewId THEN 1 ELSE 0) + CountReviewId(Tail(rows))

RECURSIVE SortedKeys(_)
\* the group keys in ascending order, as groupby lists them
SortedKeys(keys) ==
    IF keys = {} THEN <<>>
    ELSE LET least == CHOOSE k \in keys : \A o \in keys \ {k} : StrLess(k, o)
         IN  <<least>> \o SortedKeys(keys \ {least})

\* count * avg_intensity with the sum in place of the product
ImpactScore_sum(count, avg_intensity) ==
    Rat(count * avg_intensity.den + avg_intensity.num, avg_intensity.den)

\* base_stats["count"] * base_stats["avg_intensity"]
ImpactScore(count, avg_intensity) ==
    Rat(count * avg_intensity.num, avg_intensity.den)

\* determine_group_type deciding by the score alone
determine_group_type_score_only(cid, avg_score) ==
    IF RatLeq(avg_score, RISK_THRESHOLD) THEN NEG_RISK ELSE POS_STRENGTH

determine_group_type(cid, avg_score) ==
    IF StartsWith(cid, <<"N", "-">>) THEN NEG_RISK
    ELSE IF StartsWith(cid, <<"P", "-">>) THEN POS_STRENGTH
    ELSE IF RatLeq(avg_score, RISK_THRESHOLD) THEN NEG_RISK
    ELSE POS_STRENGTH

\* one row of c_df.groupby("cluster").agg(...), with impact_score and
\* group_type; count counts the rows that have a reviewId
ClusterRow(rows, cid) ==
    LET mine == RowsOfCluster(rows, cid)
        count == CountReviewId(mine)
        avg_intensity == Rat(SumIntensity(mine), Len(mine))
        avg_score == Rat(SumScore(mine), Len(mine))
    IN  [cluster |-> cid,
         count |-> count,
         avg_intensity |-> avg_intensity,
         avg_score |-> avg_score,
         impact_score |-> ImpactScore(count, avg_intensity),
         group_type |-> determine_group_type(cid, avg_score)]

\* groupby("cluster") leaves out the rows whose key is missing
BaseStats(rows) ==
    LET keys == SortedKeys({rows[i].cluster : i \in 1..Len(rows)} \ {NA_KEY})
    IN  [k \in 1..Len(keys) |-> ClusterRow(rows, keys[k])]

Min(a, b) == IF a <= b THEN a ELSE b

\* the positions of base_stats whose cluster is of the group
GroupPositions(stats, g) == {i \in 1..Len(stats) : stats[i].group_type = g}

\* what sort_values("impact_score", ascending=False).head(5) can keep of a
\* group, the lowest impact scores in place of the highest
TopSets_lowest(stats, g) ==
    LET pos == GroupPositions(stats, g)
    IN  { S \in SUBSET pos :
            /\ Cardinality(S) = Min(TopN, Cardinality(pos))
            /\ \A s \in S : \A u \in pos \ S :
                  RatLeq(stats[s].impact_score, stats[u].impact_score) }

\* what sort_values("impact_score", ascending=False).head(5) can keep of a
\* group: the default sort is not stable, so among equal impact scores any
\* may come first
TopSets(stats, g) ==
    LET pos == GroupPositions(stats, g)
    IN  { S \in SUBSET pos :
            /\ Cardinality(S) = Min(TopN, Cardinality(pos))
            /\ \A s \in S : \A u \in pos \ S :
                  RatLeq(stats[u].impact_score, stats[s].impact_score) }

RECURSIVE InsertDesc(_, _)
\* r put into a sequence sorted by descending impact_score, after its equals
InsertDesc(sorted, r) ==
    IF sorted = <<>> THEN <<r>>
    ELSE IF RatLess(Head(sorted).impact_score, r.impact_score)
    THEN <<r>> \o sorted
    ELSE <<Head(sorted)>> \o InsertDesc(Tail(sorted), r)

RECURSIVE SortDesc(_)
SortDesc(rows) ==
    IF rows = <<>> THEN <<>>
    ELSE InsertDesc(SortDesc(SubSeq(rows, 1, Len(rows) - 1)), rows[Len(rows)])

RECURSIVE RowsAt(_, _, _)
\* the rows of stats from position i on whose position is in S
RowsAt(stats, S, i) ==
    IF i > Len(stats) THEN <<>>
    ELSE (IF i \in S THEN <<stats[i]>> ELSE <<>>) \o RowsAt(stats, S, i + 1)

\* the kept rows of a group, by descending impact_score
Selected(stats, S) == SortDesc(RowsAt(stats, S, 1))

\* cluster cells of a CSV: the noise cluster, a numbered cluster, two
\* prefixed clusters, an empty cell
ClusterCells == { NOISE, <<"2">>, <<"N", "-", "1">>, <<"P", "-", "1">>, <<>> }

OrdinaryRows ==
    [ cluster : ClusterCells, score : {NumCell(3), NumCell(4)},
      intensity : {NumCell(1), NumCell(3)}, reviewId : {TRUE}, at_ok : {TRUE} ]

\* rows of a numbered cluster with one cell missing or unreadable
OddRows ==
    LET plain == [cluster |-> <<"2">>, score |-> NumCell(4), intensity |-> NumCell(3),
                  reviewId |-> TRUE, at_ok |-> TRUE]
    IN  { [plain EXCEPT !.at_ok = FALSE],
          [plain EXCEPT !.reviewId = FALSE],
          [plain EXCEPT !.score = BadCell],
          [plain EXCEPT !.intensity = BadCell] }

ClusterRows == OrdinaryRows \cup OddRows

\* a dataset of k clusters of one row each: the first n clusters are
\* "N-i", the others "P-i", and each row has intensity 1 or 3
OneRowPerCluster(k) ==
    { [i \in 1..k |->
          [cluster |-> <<(IF i <= n THEN "N" ELSE "P"), "-", Digits[i + 1]>>,
           score |-> NumCell(3), intensity |-> NumCell(int[i]),
           reviewId |-> TRUE, at_ok |-> TRUE]]
      : n \in 0..k, int \in [1..k -> {1, 3}] }

\* ten rows of cluster "N-1", each of intensity 3 and score 5
TenOfN1 ==
    [i \in 1..10 |->
        [cluster |-> <<"N", "-", "1">>, score |-> NumCell(5),
         intensity |-> NumCell(3), reviewId |-> TRUE, at_ok |-> TRUE]]

\* rows of the numbered cluster "2" with the given scores
ScoredRows(scores) ==
    [i \in 1..Len(scores) |->
        [cluster |-> <<"2">>, score |-> NumCell(scores[i]),
         intensity |-> NumCell(1), reviewId |-> TRUE, at_ok |-> TRUE]]

\* datasets around the threshold: averages 3.2 and 3.25
ThresholdDatasets == { ScoredRows(<<3, 3, 3, 3, 4>>), ScoredRows(<<3, 3, 3, 4>>) }

NoStats == <<>>

ClusterIdle ==
    /\ ccols = FALSE
    /\ craw = <<>>
    /\ cluster_df = <<>>
    /\ c_df = <<>>
    /\ base_stats = NoStats
    /\ cluster_stats = NoStats
    /\ cpc = "idle"

ClusterInit ==
    /\ \/ /\ ccols = TRUE
          /\ craw \in UNION {[1..k -> ClusterRows] : k \in 0..MaxRows}
                         \cup UNION {OneRowPerCluster(k) : k \in 0..MaxClusters}
                         \cup {TenOfN1} \cup ThresholdDatasets
       \/ /\ ccols = FALSE
          /\ craw \in UNION {[1..k -> {r \in ClusterRows : r.cluster = <<>>}] : k \in 0..MaxRows}
    /\ cluster_df = <<>>
    /\ c_df = <<>>
    /\ base_stats = NoStats
    /\ cluster_stats = NoStats
    /\ cpc = "csv"

\* Main: load_data and the session keys it fills (lines 73-87, 150-154)
MainLoadData ==
    /\ cpc = "csv"
    /\ \E keepsNa \in BOOLEAN : cluster_df' = CoerceCluster(craw, ccols, keepsNa)
    /\ cpc' = "loaded"
    /\ UNCHANGED <<ccols, craw, c_df, base_stats, cluster_stats, notCluster>>

\* the Overview page run on the session's DataFrame: preprocessing, the
\* noise filter, the aggregation per cluster, the group types and the top
\* 5 of each group
OverviewClusterMatrix ==
    /\ cpc = "loaded"
    /\ LET input == DropNoise(OverviewPreprocess(cluster_df))
           stats == BaseStats(input)
       IN  /\ c_df' = input
           /\ base_stats' = stats
           /\ \E neg \in TopSets(stats, NEG_RISK), pos \in TopSets(stats, POS_STRENGTH) :
                 cluster_stats' = Selected(stats, neg) \o Selected(stats, pos)
    /\ cpc' = "shown"
    /\ UNCHANGED <<ccols, craw, cluster_df, notCluster>>

ClusterNext ==
    \/ MainLoadData
    \/ OverviewClusterMatrix

\* C6: the aggregator's output never contains the unclustered/noise
\* cluster: no cluster of the output is made of records whose cluster id
\* on file is -1, whether the column was read as text, as numbers, or with
\* missing values.
C6_NoiseClusterNeverInOutput ==
    cpc = "shown" =>
        \A k \in 1..Len(cluster_stats) :
            /\ cluster_stats[k].cluster # NOISE
            /\ \A i \in 1..Len(craw) :
                  (ccols /\ craw[i].at_ok /\ craw[i].cluster = NOISE)
                      => cluster_df[i].cluster # cluster_stats[k].cluster

\* C7: after loading, every record's cluster id is a string, and a record
\* whose cluster id is missing (no column, or an empty cell) carries "-1".
C7_MissingClusterIsSentinel ==
    cpc \in {"loaded", "shown"} =>
        \A i \in 1..Len(craw) :
            /\ cluster_df[i].cluster # NA_KEY
            /\ (~ccols \/ craw[i].cluster = <<>>) => cluster_df[i].cluster = NOISE

\* C8: for every cluster of the aggregate, impact_score is count times
\* avg_intensity, and avg_intensity is the arithmetic mean of the
\* intensities of the cluster's records.
C8_ImpactIsCountTimesMeanIntensity ==
    cpc = "shown" =>
        \A k \in 1..Len(base_stats) :
            LET row == base_stats[k]
                mine == {i \in 1..Len(c_df) : c_df[i].cluster = row.cluster}
                total == SumIntensity(RowsOfCluster(c_df, row.cluster))
            IN  /\ mine # {}
                /\ row.avg_intensity.num * Cardinality(mine)
                       = total * row.avg_intensity.den
                /\ row.impact_score.num * row.avg_intensity.den
                       = row.count * row.avg_intensity.num * row.impact_score.den

\* a cluster of two counted records of intensities 1 and 3: mean 2, impact 4
C8_Witness ==
    /\ cpc = "shown"
    /\ \E k \in 1..Len(base_stats) :
          /\ base_stats[k].count = 2
          /\ {c_df[i].intensity : i \in {j \in 1..Len(c_df) :
                                         c_df[j].cluster = base_stats[k].cluster}} = {1, 3}
          /\ RatEq(base_stats[k].avg_intensity, Rat(2, 1))
          /\ RatEq(base_stats[k].impact_score, Rat(4, 1))

\* C9: a cluster whose id starts with "N-" is Negative (Risk) and one
\* whose id starts with "P-" is Positive (Strength) whatever its average
\* score; any other cluster is Negative (Risk) when its average score is
\* at most 3.2 and Positive (Strength) otherwise.  Ten records of cluster
\* "N-1" with intensity 3 give Negative (Risk) and impact_score 30.
C9_GroupTypeByPrefixThenScore ==
    cpc = "shown" =>
        /\ \A k \in 1..Len(base_stats) :
              LET row == base_stats[k]
                  mine == RowsOfCluster(c_df, row.cluster)
                  atMost == SumScore(mine) * 5 <= 16 * Len(mine)
                  prefix == IF Len(row.cluster) >= 2
                            THEN <<row.cluster[1], row.cluster[2]>> ELSE <<>>
              IN  row.group_type =
                      (IF prefix = <<"N", "-">> THEN NEG_RISK
                       ELSE IF prefix = <<"P", "-">> THEN POS_STRENGTH
                       ELSE IF atMost THEN NEG_RISK
                       ELSE POS_STRENGTH)
        /\ craw = TenOfN1 =>
              /\ Len(base_stats) = 1
              /\ base_stats[1].cluster = <<"N", "-", "1">>
              /\ base_stats[1].count = 10
              /\ base_stats[1].group_type = NEG_RISK
              /\ RatEq(base_stats[1].impact_score, Rat(30, 1))
              /\ cluster_stats = base_stats

\* the ten records of "N-1", whose average score 5 is above the threshold
C9_Witness ==
    /\ cpc = "shown"
    /\ craw = TenOfN1
    /\ RatEq(base_stats[1].avg_score, Rat(5, 1))
    /\ RatEq(base_stats[1].avg_intensity, Rat(3, 1))
    /\ cluster_stats[1].group_type = NEG_RISK

\* C10: for each group_type the selection holds exactly min(5, n) of the
\* group's n clusters, none of them with a lower impact_score than a
\* cluster of the group left out; an empty group adds nothing to a
\* selection that is made all the same.
C10_TopFivePerGroup ==
    cpc = "shown" =>
          \A g \in {NEG_RISK, POS_STRENGTH} :
              LET group == {base_stats[k] : k \in GroupPositions(base_stats, g)}
                  picked == {cluster_stats[k] : k \in GroupPositions(cluster_stats, g)}
              IN  /\ picked \subseteq group
                  /\ Cardinality(GroupPositions(cluster_stats, g))
                         = (IF Cardinality(group) < 5 THEN Cardinality(group) ELSE 5)
                  /\ Cardinality(picked) = Cardinality(GroupPositions(cluster_stats, g))
                  /\ \A s \in picked : \A u \in group \ picked :
                        ~RatLess(s.impact_score, u.impact_score)
                  /\ \A k \in 1..Len(cluster_stats) :
                        cluster_stats[k].group_type \in {NEG_RISK, POS_STRENGTH}

\* six clusters in one group, of which the five kept all have impact 3 and
\* the one left out has impact 1, and no cluster in the other group
C10_Witness ==
    /\ cpc = "shown"
    /\ Cardinality(GroupPositions(base_stats, NEG_RISK)) = 6
    /\ GroupPositions(base_stats, POS_STRENGTH) = {}
    /\ Len(cluster_stats) = 5
    /\ \A k \in 1..5 : RatEq(cluster_stats[k].impact_score, Rat(3, 1))
    /\ \E k \in 1..6 : RatEq(base_stats[k].impact_score, Rat(1, 1))

\* C19: a record whose timestamp cannot be parsed still enters the
\* aggregates that do not depend on time: the cluster aggregation takes
\* every record of a cluster other than the noise cluster, dated or not,
\* and lists the cluster of each.
C19_UndatedRecordsStayInClusterAggregation ==
    cpc = "shown" =>
        /\ Len(c_df) = Cardinality({i \in 1..Len(cluster_df) :
                                       cluster_df[i].cluster # NOISE})
        /\ \A i \in 1..Len(cluster_df) :
              cluster_df[i].cluster \notin {NOISE, NA_KEY} =>
                  \E k \in 1..Len(base_stats) :
                      base_stats[k].cluster = cluster_df[i].cluster

RECURSIVE NumericScores(_, _)
\* the dated rows of a cluster that have a numeric score
NumericScores(rows, cid) ==
    IF rows = <<>> THEN <<>>
    ELSE (IF Head(rows).at_ok /\ Head(rows).cluster = cid /\ Head(rows).score.num
          THEN <<Head(rows).score.v>> ELSE <<>>) \o NumericScores(Tail(rows), cid)

RECURSIVE SumOfSeq(_)
SumOfSeq(s) == IF s = <<>> THEN 0 ELSE Head(s) + SumOfSeq(Tail(s))

\* C20: a record whose score is not a number takes no part in a
\* score-based metric: the avg_score of a cluster is the mean of the
\* numeric scores of its records.
C20_NonNumericScoreOutOfAvgScore ==
    cpc = "shown" =>
        \A k \in 1..Len(base_stats) :
            LET scores == NumericScores(cluster_df, base_stats[k].cluster)
            IN  scores # <<>> =>
                    RatEq(base_stats[k].avg_score, Rat(SumOfSeq(scores), Len(scores)))

\* C24: the count of a cluster of the aggregate is the number of the
\* records of that cluster that enter the aggregation, whatever their
\* other fields hold.
C24_CountIsNumberOfRecords ==
    cpc = "shown" =>
        \A k \in 1..Len(base_stats) :
            base_stats[k].count =
                Cardinality({i \in 1..Len(c_df) :
                                c_df[i].cluster = base_stats[k].cluster})

----------------------------------------------------------------------------
(* Overview: the topic hierarchy (plot_full_width_treemap, lines 381-405).  *)
(* The rows carry the cleaned topic and the primary keyword the page has    *)
(* put on them (lines 345-379).                                             *)

\* generic_terms
GENERIC_TERMS == {"Etc", "Unknown", "None", "nan", ""}

TopicValues == {"Growth", "Etc"}
KeywordValues == {"gacha", "Etc"}
TreemapLabels == {"Negative", "Positive"}

TopicRows ==
    [sentiment_label : TreemapLabels, topic : TopicValues,
     primary_keyword : KeywordValues]

\* the filter with the keyword mask as well: generic keywords dropped too
ValidTopicRows_validKeyword(rows, label) ==
    {i \in 1..Len(rows) :
        /\ rows[i].sentiment_label = label
        /\ rows[i].topic \notin GENERIC_TERMS
        /\ rows[i].primary_keyword \notin GENERIC_TERMS}

\* df[df["sentiment_label"] == sent_label] without the generic topics
ValidTopicRows(rows, label) ==
    {i \in 1..Len(rows) :
        rows[i].sentiment_label = label /\ rows[i].topic \notin GENERIC_TERMS}

\* groupby([topic_col, "primary_keyword"]).size()
PairSizes(rows, subset) ==
    { [topic |-> rows[i].topic, primary_keyword |-> rows[i].primary_keyword,
       count |-> Cardinality({j \in subset :
                    /\ rows[j].topic = rows[i].topic
                    /\ rows[j].primary_keyword = rows[i].primary_keyword})]
      : i \in subset }

\* tree_data["count"] > 2 with the floor one lower
KeepFrequent_above1(count) == count > 1

\* tree_data["count"] > 2
KeepFrequent(count) == count > 2

TopicIdle ==
    /\ t_rows = <<>>
    /\ sent_label = ""
    /\ tree_data = {}
    /\ tpc = "idle"

\* three rows of one class with the same topic and keyword, for each
\* generic term as the topic and as the keyword
GenericDatasets ==
    { [i \in 1..3 |-> [sentiment_label |-> "Negative", topic |-> g,
                       primary_keyword |-> "gacha"]] : g \in GENERIC_TERMS }
      \cup
    { [i \in 1..3 |-> [sentiment_label |-> "Negative", topic |-> "Growth",
                       primary_keyword |-> g]] : g \in GENERIC_TERMS }

TopicInit ==
    /\ t_rows \in UNION {[1..k -> TopicRows] : k \in 0..MaxTopicRows}
                      \cup GenericDatasets
    /\ sent_label = ""
    /\ tree_data = {}
    /\ tpc = "rows"

\* plot_full_width_treemap(label, ...): st.info and return when no row
\* with a valid topic or no frequent pair is left, the treemap otherwise
PlotFullWidthTreemap ==
    /\ tpc = "rows"
    /\ \E label \in TreemapLabels :
          LET t_subset == ValidTopicRows(t_rows, label)
              kept == {r \in PairSizes(t_rows, t_subset) : KeepFrequent(r.count)}
          IN  /\ sent_label' = label
              /\ tree_data' = kept
              /\ tpc' = IF t_subset = {} \/ kept = {} THEN "info" ELSE "treemap"
    /\ UNCHANGED <<t_rows, notTopic>>

TopicNext == PlotFullWidthTreemap

\* the records of the chosen sentiment class with the pair
PairCount(topic, kw) ==
    Cardinality({i \in 1..Len(t_rows) :
        /\ t_rows[i].sentiment_label = sent_label
        /\ t_rows[i].topic = topic
        /\ t_rows[i].primary_keyword = kw})

\* the pair is in the output
PairShown(topic, kw) ==
    \E r \in tree_data : r.topic = topic /\ r.primary_keyword = kw

\* C11 as stated: a (topic, primary_keyword) pair is in the output if and
\* only if its record count within the chosen sentiment class is at
\* least 3.
C11_PairShownIffCountAtLeast3 ==
    tpc \in {"info", "treemap"} =>
        \A topic \in TopicValues, kw \in KeywordValues :
            PairShown(topic, kw) <=> PairCount(topic, kw) >= 3

\* C11 amended: a pair whose topic is not a generic term is in the output
\* if and only if its record count within the chosen sentiment class is
\* at least 3, and is shown with that count; a pair whose topic is a
\* generic term is never in the output.
C11_ValidPairShownIffCountAtLeast3 ==
    tpc \in {"info", "treemap"} =>
        /\ \A topic \in TopicValues \ GENERIC_TERMS, kw \in KeywordValues :
              /\ PairShown(topic, kw) <=> PairCount(topic, kw) >= 3
              /\ \A r \in tree_data :
                    (r.topic = topic /\ r.primary_keyword = kw)
                        => r.count = PairCount(topic, kw)
        /\ \A r \in tree_data : r.topic \notin GENERIC_TERMS
        /\ tpc = "treemap" <=> tree_data # {}

\* a pair of exactly three records is shown and a pair of one record of
\* the same topic is not
C11_Witness ==
    /\ tpc = "treemap"
    /\ \E r \in tree_data : r.count = 3
    /\ \E kw \in KeywordValues :
          PairCount("Growth", kw) = 1 /\ ~PairShown("Growth", kw)

\* C26: no row whose topic is a generic term (Etc, Unknown, None, nan,
\* the empty text) is in the hierarchy, and no row is left out for its
\* keyword: the rows of a valid topic and a generic keyword are counted
\* like those of any other keyword of the topic.
C26_OnlyTheTopicIsFiltered ==
    tpc \in {"info", "treemap"} =>
        /\ \A r \in tree_data : r.topic \notin GENERIC_TERMS
        /\ \A i \in 1..Len(t_rows) :
              (/\ t_rows[i].sentiment_label = sent_label
               /\ t_rows[i].topic \notin GENERIC_TERMS
               /\ t_rows[i].primary_keyword \in GENERIC_TERMS) =>
                  LET n == PairCount(t_rows[i].topic, t_rows[i].primary_keyword)
                  IN  n >= 3 =>
                        [topic |-> t_rows[i].topic,
                         primary_keyword |-> t_rows[i].primary_keyword,
                         count |-> n] \in tree_data

\* three rows of a valid topic whose keyword is Unknown are drawn
C26_Witness ==
    /\ tpc = "treemap"
    /\ tree_data = {[topic |-> "Growth", primary_keyword |-> "Unknown", count |-> 3]}

----------------------------------------------------------------------------
(* Overview: parse_version (lines 47-61) and the sentiment trend by        *)
(* version (lines 443-471, 495-500).  The dataset is written in runs: a    *)
(* run is the reviews of one version at one time, n[label] of each label.  *)

\* the letters that occur in the version texts modelled
VersionLetters == {"v", "b", "e", "t", "a"}

\* the class [a-zA-Z_-] of the re.sub
NonNumericClass == VersionLetters \cup {"_", "-"}

RECURSIVE DigitGroupsAcc(_, _)
DigitGroupsAcc(s, cur) ==
    IF s = <<>> THEN (IF cur = <<>> THEN <<>> ELSE <<cur>>)
    ELSE IF Head(s) \in DigitSet THEN DigitGroupsAcc(Tail(s), Append(cur, Head(s)))
    ELSE (IF cur = <<>> THEN <<>> ELSE <<cur>>) \o DigitGroupsAcc(Tail(s), <<>>)

\* re.findall(r'\d+', s): the maximal runs of digits
DigitGroups(s) == DigitGroupsAcc(s, <<>>)

RECURSIVE ToIntAcc(_, _)
ToIntAcc(s, acc) ==
    IF s = <<>> THEN acc
    ELSE ToIntAcc(Tail(s), 10 * acc + (Ord(Head(s)) - Ord("0")))

\* int(n) of a run of digits
ToInt(s) == ToIntAcc(s, 0)

\* parse_version without the padding to three numbers
parse_version_unpadded(v_str) ==
    LET groups == DigitGroups(RemoveChars(v_str, NonNumericClass))
        nums == [i \in 1..Len(groups) |-> ToInt(groups[i])]
    IN  SubSeq(nums, 1, IF Len(nums) < 3 THEN Len(nums) ELSE 3)

parse_version(v_str) ==
    LET groups == DigitGroups(RemoveChars(v_str, NonNumericClass))
        nums == [i \in 1..Len(groups) |-> ToInt(groups[i])]
        padded == nums \o <<0, 0, 0>>
    IN  SubSeq(padded, 1, 3)

RECURSIVE TupleLess(_, _)
\* a < b for tuples of int
TupleLess(a, b) ==
    IF b = <<>> THEN FALSE
    ELSE IF a = <<>> THEN TRUE
    ELSE IF Head(a) = Head(b) THEN TupleLess(Tail(a), Tail(b))
    ELSE Head(a) < Head(b)

RECURSIVE InsertByKey(_, _)
\* v put into a sequence sorted by parse_version, after its equals
InsertByKey(sorted, v) ==
    IF sorted = <<>> THEN <<v>>
    ELSE IF TupleLess(parse_version(v), parse_version(Head(sorted)))
    THEN <<v>> \o sorted
    ELSE <<Head(sorted)>> \o InsertByKey(Tail(sorted), v)

RECURSIVE SortedByKey(_)
\* sorted(versions, key=parse_version): stable
SortedByKey(versions) ==
    IF versions = <<>> THEN <<>>
    ELSE InsertByKey(SortedByKey(SubSeq(versions, 1, Len(versions) - 1)),
                     versions[Len(versions)])

RECURSIVE UniqueVersions(_, _)
\* df["appVersion"].dropna().unique(): in order of first appearance
UniqueVersions(rows, seen) ==
    IF rows = <<>> THEN <<>>
    ELSE IF Head(rows).appVersion \in seen THEN UniqueVersions(Tail(rows), seen)
    ELSE <<Head(rows).appVersion>>
             \o UniqueVersions(Tail(rows), seen \cup {Head(rows).appVersion})

RECURSIVE RunsOfVersion(_, _)
RunsOfVersion(rows, v) ==
    IF rows = <<>> THEN <<>>
    ELSE (IF Head(rows).appVersion = v THEN <<Head(rows)>> ELSE <<>>)
             \o RunsOfVersion(Tail(rows), v)

RECURSIVE SumLabel(_, _)
\* the number of reviews of the label in the runs
SumLabel(runs, label) ==
    IF runs = <<>> THEN 0 ELSE Head(runs).n[label] + SumLabel(Tail(runs), label)

\* the columns unstack gives trend_df: the labels that occur in the data
LabelColumns(rows) == {l \in SentimentLabels : SumLabel(rows, l) > 0}

\* one row of df.groupby(["appVersion", "sentiment_label"]).size().unstack(
\* fill_value=0), with Total_Count
TrendRow(rows, v) ==
    LET mine == RunsOfVersion(rows, v)
        neg == SumLabel(mine, "Negative")
        neu == SumLabel(mine, "Neutral")
        pos == SumLabel(mine, "Positive")
    IN  [appVersion |-> v, Negative |-> neg, Neutral |-> neu, Positive |-> pos,
         Total_Count |-> neg + neu + pos]

\* trend_df["Total_Count"] > 10
EnoughReviews(total) == total > 10

RECURSIVE KeepEnough(_)
KeepEnough(trend) ==
    IF trend = <<>> THEN <<>>
    ELSE (IF EnoughReviews(Head(trend).Total_Count) THEN <<Head(trend)>> ELSE <<>>)
             \o KeepEnough(Tail(trend))

\* get_numeric_sentiment: Positive 100, Negative 0, anything else 50
get_numeric_sentiment(label) ==
    IF label = "Positive" THEN 100 ELSE IF label = "Negative" THEN 0 ELSE 50

\* one row of df.groupby("appVersion")["sentiment_score_val"].mean()
ScoreTrendRow(rows, v) ==
    LET r == TrendRow(rows, v)
    IN  [appVersion |-> v,
         sentiment_score_val |->
             Rat(r.Negative * get_numeric_sentiment("Negative")
                   + r.Neutral * get_numeric_sentiment("Neutral")
                   + r.Positive * get_numeric_sentiment("Positive"),
                 r.Total_Count)]

\* version texts: the three of the docstring, a two-digit minor, a bare
\* major, and a text without digits
V_1_2_3 == <<"1", ".", "2", ".", "3">>
V_v1_2 == <<"v", "1", ".", "2">>
V_1_2_3_4 == <<"1", ".", "2", ".", "3", ".", "4">>
V_1_10 == <<"1", ".", "1", "0">>
V_2 == <<"2">>
V_beta == <<"b", "e", "t", "a">>
\* a version with a build number after a hyphen
V_1_2_build3 == <<"1", ".", "2", "-", "3">>

VersionTexts == {V_1_2_3, V_v1_2, V_1_2_3_4, V_1_10, V_2, V_beta, V_1_2_build3}

\* the days reviews are written on
Days == 1..2

OneOfEach == [l \in SentimentLabels |-> 1]

\* datasets for the order: runs of one review of each label
OrderRuns == [appVersion : VersionTexts, at : Days, n : {OneOfEach}]

\* reviews of one label a version can have in the datasets for the volume
ReviewCounts == {0, 1, 5, 6}

\* datasets for the volume: two versions, each with 0 to 18 reviews
VolumeDatasets ==
    { SelectSeq(<<[appVersion |-> V_1_2_3, at |-> 1, n |-> c1],
                  [appVersion |-> V_2, at |-> 2, n |-> c2]>>,
                LAMBDA r : r.n["Negative"] + r.n["Neutral"] + r.n["Positive"] > 0)
      : c1 \in [SentimentLabels -> ReviewCounts],
        c2 \in [SentimentLabels -> ReviewCounts] }

VersionIdle ==
    /\ v_rows = <<>>
    /\ ver_order = <<>>
    /\ trend_df = <<>>
    /\ s_trend = <<>>
    /\ vpc = "idle"

VersionInit ==
    /\ v_rows \in UNION {[1..k -> OrderRuns] : k \in 0..MaxVersionRuns}
                     \cup VolumeDatasets
    /\ ver_order = <<>>
    /\ trend_df = <<>>
    /\ s_trend = <<>>
    /\ vpc = "rows"

\* the trend with "version" chosen.  sorted(..., key=parse_version) cannot
\* raise: parse_version gives three ints for every str, so the except
\* branch (order by the first date of each version) is never taken.  The
\* selection of the three label columns raises KeyError when a label does
\* not occur in the data.
OverviewVersionTrend ==
    /\ vpc = "rows"
    /\ LET order == SortedByKey(UniqueVersions(v_rows, {}))
       IN  /\ ver_order' = order
           /\ IF LabelColumns(v_rows) # SentimentLabels
              THEN /\ trend_df' = <<>>
                   /\ s_trend' = <<>>
                   /\ vpc' = "KeyError"
              ELSE /\ trend_df' = KeepEnough([i \in 1..Len(order) |->
                                                 TrendRow(v_rows, order[i])])
                   /\ s_trend' = [i \in 1..Len(order) |-> ScoreTrendRow(v_rows, order[i])]
                   /\ vpc' = "shown"
    /\ UNCHANGED <<v_rows, notVersion>>

VersionNext == OverviewVersionTrend

\* the (major, minor, patch) a reader takes from the version text
DirectTriple(v) ==
    CASE v = V_1_2_3 -> <<1, 2, 3>>
      [] v = V_v1_2 -> <<1, 2, 0>>
      [] v = V_1_2_3_4 -> <<1, 2, 3>>
      [] v = V_1_10 -> <<1, 10, 0>>
      [] v = V_2 -> <<2, 0, 0>>
      [] OTHER -> <<>>

\* a <= b for (major, minor, patch)
TripleLeq(a, b) ==
    \/ a[1] < b[1]
    \/ a[1] = b[1] /\ a[2] < b[2]
    \/ a[1] = b[1] /\ a[2] = b[2] /\ a[3] <= b[3]

VersionsOfData == {v_rows[i].appVersion : i \in 1..Len(v_rows)}

FirstDay(v) ==
    CHOOSE d \in Days :
        /\ \E i \in 1..Len(v_rows) : v_rows[i].appVersion = v /\ v_rows[i].at = d
        /\ \A i \in 1..Len(v_rows) : v_rows[i].appVersion = v => v_rows[i].at >= d

\* C13: when a version text of the data has no digit, the whole version
\* set is ordered by each version's earliest review timestamp.
C13_NoDigitsFallsBackToFirstDay ==
    (vpc \in {"shown", "KeyError"}
        /\ \E v \in VersionsOfData : DigitGroups(v) = <<>>) =>
            \A i \in 1..Len(ver_order), j \in 1..Len(ver_order) :
                i < j => FirstDay(ver_order[i]) <= FirstDay(ver_order[j])

\* the number of reviews of the version
TotalReviews(v) ==
    LET mine == RunsOfVersion(v_rows, v)
    IN  SumLabel(mine, "Negative") + SumLabel(mine, "Neutral") + SumLabel(mine, "Positive")

\* C14: a version with 10 reviews or fewer is in neither the per-version
\* volume trend nor the per-version average-sentiment trend; a version
\* with 11 reviews or more is in both.
C14_SmallVersionsLeftOutOfTrends ==
    vpc = "shown" =>
        \A v \in VersionsOfData :
            /\ (\E k \in 1..Len(trend_df) : trend_df[k].appVersion = v)
                   <=> TotalReviews(v) > 10
            /\ (\E k \in 1..Len(s_trend) : s_trend[k].appVersion = v)
                   <=> TotalReviews(v) > 10

\* the triple of the digit groups of the version text as written, zeros
\* put before them up to three numbers, the first three kept
LeftPaddedTriple(v) ==
    LET groups == DigitGroups(v)
        nums == [i \in 1..Len(groups) |-> ToInt(groups[i])]
        padded == (IF Len(nums) < 3 THEN [i \in 1..(3 - Len(nums)) |-> 0] ELSE <<>>)
                      \o nums
    IN  SubSeq(padded, 1, 3)

\* C27: the versions are ordered ascending by the triple of the digit
\* groups of the version text, in order, padded with zeros on the left
\* to three numbers and cut to three; leaving out the letters and
\* separators of the text does not change its digit groups.
C27_OrderByDigitGroups ==
    vpc \in {"shown", "KeyError"} =>
        /\ \A v \in VersionsOfData :
              DigitGroups(RemoveChars(v, NonNumericClass)) = DigitGroups(v)
        /\ \A i \in 1..Len(ver_order), j \in 1..Len(ver_order) :
              i < j => ~TupleLess(LeftPaddedTriple(ver_order[j]),
                                  LeftPaddedTriple(ver_order[i]))

----------------------------------------------------------------------------
(* Version Trends page (pages/5, lines 25-116).  The page reads the        *)
(* Version Aggregates from version_trend.csv; the engine that writes the   *)
(* file is not among the sources, so the aggregates and their deltas       *)
(* follow the specification (section 4.5).  Scores are in percent.         *)

\* a delta_* cell of the first version in order: empty in the CSV, NaN
\* once read
NoDelta == BadCell

\* the Version Aggregates of the versions 1..Len(data) in ascending order,
\* data[i] the aggregate scores of version i: each delta is the aggregate
\* minus that of the version before, the first version has none
VersionAggregates(data) ==
    [i \in 1..Len(data) |->
        [version |-> i,
         sentiment_score |-> data[i].sentiment_score,
         review_count |-> data[i].review_count,
         delta_sentiment |->
             IF i = 1 THEN NoDelta
             ELSE NumCell(data[i].sentiment_score - data[i - 1].sentiment_score),
         delta_volume |->
             IF i = 1 THEN NoDelta
             ELSE NumCell(data[i].review_count - data[i - 1].review_count)]]

\* trend_df.iloc[::-1]
Reversed(rows) == [i \in 1..Len(rows) |-> rows[Len(rows) + 1 - i]]

\* the chart frame taken as the file is
TrendDfChart_asIs(rows) == rows

\* lines 51-56: the chart frame is the file reversed (the file is taken
\* to list the newest version first)
TrendDfChart(rows) == IF Len(rows) > 1 THEN Reversed(rows) ELSE rows

\* df.tail(n)
TailRows(rows, n) ==
    IF Len(rows) <= n THEN rows ELSE SubSeq(rows, Len(rows) - n + 1, Len(rows))

\* filtered_trend_df.iloc[-2] taken one row further back
PrevVer_twoBack(filtered) ==
    IF Len(filtered) > 2 THEN filtered[Len(filtered) - 2]
    ELSE IF Len(filtered) > 1 THEN filtered[Len(filtered) - 1]
    ELSE <<>>

\* prev_ver: filtered_trend_df.iloc[-2] if there is more than one row,
\* else None (written <<>>)
PrevVer(filtered) ==
    IF Len(filtered) > 1 THEN filtered[Len(filtered) - 1] ELSE <<>>

\* lines 68-76: the three values of the waterfall
Waterfall(filtered) ==
    LET latest_ver == filtered[Len(filtered)]
        prev_ver == PrevVer(filtered)
    IN  [version |-> latest_ver.version,
         has_prev |-> prev_ver # <<>>,
         val_prev |-> IF prev_ver # <<>> THEN prev_ver.sentiment_score ELSE 0,
         val_delta |-> latest_ver.delta_sentiment,
         val_curr |-> latest_ver.sentiment_score]

NoWaterfall ==
    [version |-> 0, has_prev |-> FALSE, val_prev |-> 0, val_delta |-> NoDelta,
     val_curr |-> 0]

\* the aggregate scores a version can have
AggregateScores == [sentiment_score : {20, 50, 80}, review_count : {11, 40}]

\* trends of more versions than the slider's least value, of one review
\* count
LongTrends ==
    { [i \in 1..6 |-> [sentiment_score |-> s[i], review_count |-> 11]]
      : s \in [1..6 -> {20, 80}] }

\* the slider's range is 5..20, 10 at the start
SliderValues == {5, 10}

DeltaIdle ==
    /\ trend_file = <<>>
    /\ num_versions = 0
    /\ filtered_trend_df = <<>>
    /\ waterfall = NoWaterfall
    /\ dpc = "idle"

\* the file lists the aggregates oldest first or newest first
DeltaInit ==
    /\ \E data \in UNION {[1..k -> AggregateScores] : k \in 0..MaxAggregates}
                       \cup LongTrends :
          trend_file \in {VersionAggregates(data), Reversed(VersionAggregates(data))}
    /\ num_versions \in SliderValues
    /\ filtered_trend_df = <<>>
    /\ waterfall = NoWaterfall
    /\ dpc = "session"

\* the page: st.stop() on an empty trend, else the waterfall of the last
\* row of the filtered chart frame
VersionTrendsPage ==
    /\ dpc = "session"
    /\ IF trend_file = <<>>
       THEN /\ filtered_trend_df' = <<>>
            /\ waterfall' = NoWaterfall
            /\ dpc' = "stopped"
       ELSE /\ filtered_trend_df' = TailRows(TrendDfChart(trend_file), num_versions)
            /\ waterfall' = Waterfall(filtered_trend_df')
            /\ dpc' = "shown"
    /\ UNCHANGED <<trend_file, num_versions, notDelta>>

DeltaNext == VersionTrendsPage

\* the row of the file for version v
AggregateOf(v) ==
    CHOOSE r \in {trend_file[i] : i \in 1..Len(trend_file)} : r.version = v

\* the file lists the newest version first
NewestFirst ==
    \A i \in 1..Len(trend_file) - 1 : trend_file[i].version > trend_file[i + 1].version

ShownCount == IF Len(trend_file) < num_versions THEN Len(trend_file) ELSE num_versions

\* C30: with a trend table of more than one row the page shows the first
\* min(N, rows) rows of the table, N the slider's value, in reversed
\* order; the version taken as latest is the first row of the table and
\* the previous one the second row, whatever the order of the versions
\* is; with a table of one row there is no previous version and the
\* previous value is 0.
C30_FirstRowIsLatest ==
    dpc = "shown" =>
        /\ Len(trend_file) > 1 =>
              /\ filtered_trend_df = Reversed(SubSeq(trend_file, 1, ShownCount))
              /\ waterfall.version = trend_file[1].version
              /\ waterfall.val_curr = trend_file[1].sentiment_score
              /\ waterfall.val_delta = trend_file[1].delta_sentiment
              /\ waterfall.has_prev
              /\ waterfall.val_prev = trend_file[2].sentiment_score
        /\ Len(trend_file) = 1 =>
              /\ filtered_trend_df = trend_file
              /\ ~waterfall.has_prev
              /\ waterfall.val_prev = 0

\* six versions listed oldest first and a slider at 5: rows 5..1 of the
\* table are shown, version 1 is taken as the latest and version 2, of
\* another score, as the previous one
C30_Witness ==
    /\ dpc = "shown"
    /\ num_versions = 5
    /\ Len(trend_file) = 6
    /\ ~NewestFirst
    /\ Len(filtered_trend_df) = 5
    /\ waterfall.version = 1
    /\ waterfall.val_curr = 20
    /\ waterfall.val_prev = 80

----------------------------------------------------------------------------
(* Update Impact Checker (pages/3).  The dataset is written in runs of n   *)
(* equal reviews.  A timestamp is compared with the midnight of the update *)
(* date, which is the comparison of the review's day with the update day,  *)
(* so a review carries its day.  Averages are exact fractions.             *)

NL == "\n"

\* str.lower() of the characters of the texts modelled
Lower(c) ==
    CASE c = "L" -> "l"
      [] c = "U" -> "u"
      [] c = "I" -> "i"
      [] OTHER -> c

LowerAll(s) == [i \in 1..Len(s) |-> Lower(s[i])]

\* Series.str.contains(keyword, case=False, regex=False) on one cell
ContainsNoCase(text, keyword) ==
    LET t == LowerAll(text)
        k == LowerAll(keyword)
    IN  \E i \in 1..(Len(t) - Len(k) + 1) : SubSeq(t, i, i + Len(k) - 1) = k

\* fillna("") of a content cell
FillNaText(cell) == IF cell = NA_KEY THEN <<>> ELSE cell

\* changes: the stripped non-empty lines of the release text (line 128)
Changes(text) == StripAllNonEmpty(Split(text, NL))

\* tokens[0] of change.split() (lines 225-230)
FirstToken(change) == StripAllNonEmpty(Split(change, SP))[1]

RECURSIVE DropNaScore(_)
\* df.dropna(subset=["score"]) after pd.to_numeric(errors="coerce")
DropNaScore(rows) ==
    IF rows = <<>> THEN <<>>
    ELSE (IF Head(rows).score.num
          THEN <<[content |-> Head(rows).content, score |-> Head(rows).score.v,
                  day |-> Head(rows).day, n |-> Head(rows).n]>>
          ELSE <<>>) \o DropNaScore(Tail(rows))

RECURSIVE RowsBefore(_, _)
\* df[df["at"] < update_date]
RowsBefore(rows, date) ==
    IF rows = <<>> THEN <<>>
    ELSE (IF Head(rows).day < date THEN <<Head(rows)>> ELSE <<>>)
             \o RowsBefore(Tail(rows), date)

RECURSIVE RowsFrom(_, _)
\* df[df["at"] >= update_date]
RowsFrom(rows, date) ==
    IF rows = <<>> THEN <<>>
    ELSE (IF Head(rows).day >= date THEN <<Head(rows)>> ELSE <<>>)
             \o RowsFrom(Tail(rows), date)

RECURSIVE Matching(_, _)
\* side[side["content"].fillna("").str.contains(keyword, ...)]
Matching(rows, keyword) ==
    IF rows = <<>> THEN <<>>
    ELSE (IF ContainsNoCase(FillNaText(Head(rows).content), keyword)
          THEN <<Head(rows)>> ELSE <<>>) \o Matching(Tail(rows), keyword)

RECURSIVE CountReviews(_)
\* len(df) of a frame written in runs
CountReviews(rows) ==
    IF rows = <<>> THEN 0 ELSE Head(rows).n + CountReviews(Tail(rows))

RECURSIVE SumScores(_)
SumScores(rows) ==
    IF rows = <<>> THEN 0 ELSE Head(rows).n * Head(rows).score + SumScores(Tail(rows))

\* a cell of before_avg / after_avg: a number, None, or NaN
AvgNum(r) == [kind |-> "num", v |-> r]
AvgNone == [kind |-> "None", v |-> Rat(0, 1)]
AvgNaN == [kind |-> "NaN", v |-> Rat(0, 1)]

\* sub["score"].mean() if len(sub) > 0 else None (lines 249-250)
AvgOrNone(sub) ==
    IF CountReviews(sub) > 0 THEN AvgNum(Rat(SumScores(sub), CountReviews(sub)))
    ELSE AvgNone

\* the dict appended to results for one change (lines 223-260)
ResultOf(change, before, after) ==
    LET keyword == FirstToken(change)
        before_sub == Matching(before, keyword)
        after_sub == Matching(after, keyword)
    IN  [change |-> change,
         before_count |-> CountReviews(before_sub),
         after_count |-> CountReviews(after_sub),
         before_avg |-> AvgOrNone(before_sub),
         after_avg |-> AvgOrNone(after_sub)]

\* a column of pd.DataFrame(results) (line 262): when some row of the
\* column holds a number the column is float64 and its None become NaN;
\* a column of None only stays object and keeps None
FrameCell(results, column, i) ==
    IF results[i][column].kind = "None"
         /\ \E j \in 1..Len(results) : results[j][column].kind = "num"
    THEN AvgNaN
    ELSE results[i][column]

RatAdd(a, b) == Rat(a.num * b.den + b.num * a.den, a.den * b.den)
RatSub(a, b) == Rat(a.num * b.den - b.num * a.den, a.den * b.den)
RatTimes(a, k) == Rat(a.num * k, a.den)

\* round(x, 2) of x >= 0, in hundredths; an exact tie goes to the even
\* hundredth (no tie occurs for the counts modelled)
RoundHundredths(x) ==
    LET scaled == 100 * x.num
        low == scaled \div x.den
        twice == 2 * (scaled - low * x.den)
    IN  IF twice < x.den THEN low
        ELSE IF twice > x.den THEN low + 1
        ELSE IF low % 2 = 0 THEN low ELSE low + 1

\* an impact_score cell: hundredths of the score, or NaN
ScoreNum(h) == [kind |-> "num", hundredths |-> h]
ScoreNaN == [kind |-> "NaN", hundredths |-> 0]

\* compute_score without the clamp at 0
compute_score_unclamped(row) ==
    LET s1 == IF row.before_count > 0
              THEN Rat(50 * (row.before_count - row.after_count), row.before_count)
              ELSE Rat(0, 1)
        s == IF row.before_avg.kind = "num" /\ row.after_avg.kind = "num"
             THEN RatAdd(s1, RatTimes(RatSub(row.after_avg.v, row.before_avg.v), 10))
             ELSE s1
    IN  IF s.num < 0 THEN ScoreNum(0 - RoundHundredths(Rat(0 - s.num, s.den)))
        ELSE ScoreNum(RoundHundredths(s))

\* compute_score (lines 286-296).  `is not None` is true of NaN, and a sum
\* with NaN is NaN; max(nan, 0) is nan, its first argument, and so is
\* round(nan, 2)
compute_score(row) ==
    LET s1 == IF row.before_count > 0
              THEN Rat(50 * (row.before_count - row.after_count), row.before_count)
              ELSE Rat(0, 1)
        both == row.before_avg.kind # "None" /\ row.after_avg.kind # "None"
    IN  IF both /\ (row.before_avg.kind = "NaN" \/ row.after_avg.kind = "NaN")
        THEN ScoreNaN
        ELSE LET s == IF both
                      THEN RatAdd(s1, RatTimes(RatSub(row.after_avg.v,
                                                      row.before_avg.v), 10))
                      ELSE s1
             IN  ScoreNum(RoundHundredths(IF s.num < 0 THEN Rat(0, 1) ELSE s))

\* impact_df: the frame of the results with its impact_score column
ImpactDf(results) ==
    [i \in 1..Len(results) |->
        LET row == [change |-> results[i].change,
                    before_count |-> results[i].before_count,
                    after_count |-> results[i].after_count,
                    before_avg |-> FrameCell(results, "before_avg", i),
                    after_avg |-> FrameCell(results, "after_avg", i)]
        IN  [change |-> row.change,
             before_count |-> row.before_count,
             after_count |-> row.after_count,
             before_avg |-> row.before_avg,
             after_avg |-> row.after_avg,
             impact_score |-> compute_score(row)]]

\* review texts: one that holds "lag" in other case, one that holds "ui",
\* and a missing content
C_LAG == <<"L", "a", "g", "!">>
C_UI == <<"u", "i">>

\* release notes: nothing, blank lines only, one change, two changes
R_BLANK == <<SP, NL>>
R_LAG == <<"l", "a", "g", SP, "f", "i", "x">>
R_LAG_UI == R_LAG \o <<NL, "U", "I">>

ReleaseTexts == {<<>>, R_BLANK, R_LAG, R_LAG_UI}

ImpactRows ==
    [content : {C_LAG, C_UI, NA_KEY}, score : {NumCell(2), NumCell(4), BadCell},
     day : 1..2, n : {1}]

ImpactRun(content, score, day, n) ==
    [content |-> content, score |-> NumCell(score), day |-> day, n |-> n]

\* 100 reviews of score 2 before and 40 of score 4 after; 3 before and 2
\* after; a second change matched before the update only
ImpactExamples ==
    { <<ImpactRun(C_LAG, 2, 1, 100), ImpactRun(C_LAG, 4, 2, 40)>>,
      <<ImpactRun(C_LAG, 2, 1, 3), ImpactRun(C_LAG, 4, 2, 2)>>,
      <<ImpactRun(C_LAG, 2, 1, 1), ImpactRun(C_LAG, 4, 2, 1), ImpactRun(C_UI, 2, 1, 1)>> }

ImpactIdle ==
    /\ i_rows = <<>>
    /\ release_text = <<>>
    /\ update_date = 0
    /\ before_df = <<>>
    /\ after_df = <<>>
    /\ impact_df = <<>>
    /\ ipc = "idle"

ImpactInit ==
    /\ i_rows \in UNION {[1..k -> ImpactRows] : k \in 0..MaxImpactRows}
                     \cup ImpactExamples
    /\ release_text \in ReleaseTexts
    /\ update_date = 0
    /\ before_df = <<>>
    /\ after_df = <<>>
    /\ impact_df = <<>>
    /\ ipc = "session"

\* before_df.empty or after_df.empty, with `and` for `or`
Insufficient_both(before, after) == before = <<>> /\ after = <<>>

\* before_df.empty or after_df.empty (line 155)
Insufficient(before, after) == before = <<>> \/ after = <<>>

\* the days the date input offers: min_date .. max_date (lines 139-147)
DateChoices(df) ==
    {d \in 1..2 :
        /\ \E i \in 1..Len(df) : df[i].day <= d
        /\ \E i \in 1..Len(df) : df[i].day >= d}

\* the page, from the session's rows to the impact scores.  It stops
\* early without data (line 42) or without release notes (line 121).
\* When every score is dropped as non-numeric the frame is empty and
\* min_date is NaT: the date input fails or gives no date, and in both
\* cases nothing is computed.
UpdateImpactPage ==
    /\ ipc = "session"
    /\ LET df == DropNaScore(i_rows)
           changes == Changes(release_text)
       IN  IF i_rows = <<>>
           THEN /\ ipc' = "no_data"
                /\ UNCHANGED <<update_date, before_df, after_df, impact_df>>
           ELSE IF RemoveChars(release_text, Whitespace \cup {NL}) = <<>>
           THEN /\ ipc' = "no_release"
                /\ UNCHANGED <<update_date, before_df, after_df, impact_df>>
           ELSE IF df = <<>>
           THEN /\ ipc' \in {"error", "insufficient"}
                /\ UNCHANGED <<update_date, before_df, after_df, impact_df>>
           ELSE \E date \in DateChoices(df) :
                   LET before == RowsBefore(df, date)
                       after == RowsFrom(df, date)
                   IN  /\ update_date' = date
                       /\ before_df' = before
                       /\ after_df' = after
                       /\ IF Insufficient(before, after)
                          THEN /\ impact_df' = <<>>
                               /\ ipc' = "insufficient"
                          ELSE /\ impact_df' =
                                     ImpactDf([i \in 1..Len(changes) |->
                                                  ResultOf(changes[i], before, after)])
                               /\ ipc' = "done"
    /\ UNCHANGED <<i_rows, release_text, notImpact>>

ImpactNext == UpdateImpactPage

\* the rows of the session with a numeric score: the page's records
ScoredPositions == {i \in 1..Len(i_rows) : i_rows[i].score.num}

\* C16: with before = the records before the update date and after = the
\* records from it on, the page ends with the insufficient-data warning,
\* no per-change row and no improvement score whenever one of the two is
\* empty, and computes a row and a score for each change only when both
\* are non-empty.
C16_EmptyPartitionIsInsufficientData ==
    /\ ipc \in {"no_data", "no_release", "error", "insufficient"} => impact_df = <<>>
    /\ (ipc \in {"insufficient", "done"} /\ update_date # 0) =>
          /\ \A k \in 1..Len(before_df) : before_df[k].day < update_date
          /\ \A k \in 1..Len(after_df) : after_df[k].day >= update_date
          /\ Len(before_df) =
                Cardinality({i \in ScoredPositions : i_rows[i].day < update_date})
          /\ Len(after_df) =
                Cardinality({i \in ScoredPositions : i_rows[i].day >= update_date})
          /\ (before_df = <<>> \/ after_df = <<>>) => ipc = "insufficient"
          /\ (before_df # <<>> /\ after_df # <<>>) =>
                /\ ipc = "done"
                /\ Len(impact_df) = Len(Changes(release_text))

\* every review is dated on the update date or later: no review before
C16_Witness ==
    /\ ipc = "insufficient"
    /\ update_date = 2
    /\ before_df = <<>>
    /\ Len(after_df) = 2
    /\ release_text = R_LAG_UI
    /\ impact_df = <<>>

\* 100 times the improvement formula of a row, as numerator and
\* denominator: 50 (before_count - after_count) / before_count
\* + 10 (after_avg - before_avg)
FormulaTimes100(row) ==
    LET b == row.before_count
        a == row.after_count
        ba == row.before_avg.v
        aa == row.after_avg.v
    IN  [num |-> 100 * (50 * (b - a) * ba.den * aa.den
                          + 10 * b * (aa.num * ba.den - ba.num * aa.den)),
         den |-> b * ba.den * aa.den]

C18_UnmatchedSideOmitsAverageTerm ==
    ipc = "done" =>
        \A k \in 1..Len(impact_df) :
            LET row == impact_df[k]
            IN  (row.before_count = 0 \/ row.after_count = 0) =>
                    /\ row.impact_score.kind = "num"
                    /\ row.impact_score.hundredths >= 0
                    /\ row.impact_score.hundredths =
                          (IF row.before_count > 0 THEN 5000 ELSE 0)

----------------------------------------------------------------------------
(* Overview: the keyword frequencies per sentiment (lines 242-316) and the *)
(* primary keyword (lines 372-379).  The keywords cell of a row is what    *)
(* pd.read_csv gives: a text or a missing value.                           *)

\* STOP_KEYWORDS (line 278), Hangul written by its romanization
STOP_KEYWORDS ==
    { KW_JAEMI, KW_GAME, <<"G", "o", "o", "d">>, <<"P", "l", "a", "y">>,
      <<"ha", "neun">>, <<"hal">>, <<"ham">>, <<"jeon", "tu">>, <<"yu", "jeo">>,
      <<"sa", "ram">>, <<"geot">>, <<"su">>, <<"jeo">>, <<"je">> }

\* value_counts().head(10)
TopKeywords == 10

\* the rows of explode("kw_list") for one row: one per element, and one
\* missing value for an empty list
ExplodeRow(label, list) ==
    IF list.items = <<>> THEN <<[sentiment_label |-> label, kw_list |-> NaN]>>
    ELSE [k \in 1..Len(list.items) |->
             [sentiment_label |-> label, kw_list |-> list.items[k]]]

RECURSIVE Explode(_, _)
\* kw_df["keywords"].apply(robust_eval_list) and explode("kw_list")
Explode(rows, emptyRaises) ==
    IF rows = <<>> THEN <<>>
    ELSE ExplodeRow(Head(rows).sentiment_label,
                    robust_eval_list(Head(rows).keywords, emptyRaises).value)
             \o Explode(Tail(rows), emptyRaises)

RECURSIVE NotNaNotEmpty(_)
\* kw_df[kw_df["kw_list"].notna()] and kw_df[kw_df["kw_list"] != ""]
NotNaNotEmpty(rows) ==
    IF rows = <<>> THEN <<>>
    ELSE (IF Head(rows).kw_list # NaN /\ Head(rows).kw_list # StrVal(<<>>)
          THEN <<Head(rows)>> ELSE <<>>) \o NotNaNotEmpty(Tail(rows))

\* kw_df["kw_list"].apply(normalize_kw_display)
Consolidate(rows) ==
    [k \in 1..Len(rows) |->
        [rows[k] EXCEPT !.kw_list = normalize_kw_display(rows[k].kw_list)]]

\* the stop filter applied to the raw keyword, before the consolidation
IsStop_raw(raw, consolidated) == raw.t = "str" /\ raw.s \in STOP_KEYWORDS

\* kw_df["kw_list"].isin(STOP_KEYWORDS), on the consolidated keyword
IsStop(raw, consolidated) ==
    consolidated.t = "str" /\ consolidated.s \in STOP_KEYWORDS

RECURSIVE DropStop(_, _)
\* kw_df[~kw_df["kw_list"].isin(STOP_KEYWORDS)]; rows are the rows before
\* the consolidation, done their consolidated form
DropStop(rows, done) ==
    IF rows = <<>> THEN <<>>
    ELSE (IF IsStop(Head(rows).kw_list, Head(done).kw_list) THEN <<>>
          ELSE <<Head(done)>>) \o DropStop(Tail(rows), Tail(done))

\* the kw_df the charts read (lines 243-279)
KwDf(rows, emptyRaises) ==
    LET exploded == NotNaNotEmpty(Explode(rows, emptyRaises))
    IN  DropStop(exploded, Consolidate(exploded))

\* subset["kw_list"].value_counts(): <<keyword, count>> pairs
ValueCounts(rows, label) ==
    LET mine == {k \in 1..Len(rows) : rows[k].sentiment_label = label}
    IN  { [keyword |-> rows[k].kw_list,
           count |-> Cardinality({j \in mine : rows[j].kw_list = rows[k].kw_list})]
          : k \in mine }

\* what head(10) of the counts can keep: the counts come in descending
\* order, and among equal counts any may come first
TopK(counts) ==
    { S \in SUBSET counts :
        /\ Cardinality(S) = Min(TopKeywords, Cardinality(counts))
        /\ \A s \in S : \A u \in counts \ S : u.count <= s.count }

\* get_first_kw_robust (lines 373-375)
get_first_kw_robust(v, emptyRaises) ==
    LET l == robust_eval_list(v, emptyRaises).value
    IN  IF l.items # <<>> THEN l.items[1] ELSE StrVal(<<"E", "t", "c">>)

\* keywords of the cells: one the table consolidates to a kept label, one
\* it consolidates to a stop label, a stop label, an ordinary word, a
\* blank and the empty text
W_REK == <<"rek">>
W_GAME == <<"G", "a", "m", "e">>
W_GOOD == <<"G", "o", "o", "d">>
W_BOSS == <<"b">>
FreqWords == {W_REK, W_GAME, W_GOOD, W_BOSS, <<SP>>, <<>>}

\* the cells: missing, a list display of at most two keywords, or
\* keywords separated by a comma
FreqCells ==
    {NaN} \cup {StrVal(Repr(l)) : l \in UNION {[1..k -> FreqWords] : k \in 0..1}}
          \cup {StrVal(Repr(l)) : l \in {<<W_GAME, W_BOSS>>, <<W_BOSS, W_BOSS>>,
                                         <<<<>>, W_REK>>, <<<<SP>>, W_BOSS>>}}
          \cup {StrVal(Join(<<W_GAME, W_BOSS>>, <<COMMA>>))}

FreqRows == [sentiment_label : {"Negative", "Positive"}, keywords : FreqCells]

FreqIdle ==
    /\ f_rows = <<>>
    /\ primary_keyword = <<>>
    /\ kw_df = <<>>
    /\ top_k = [l \in {"Negative", "Positive"} |-> {}]
    /\ fpc = "idle"

FreqInit ==
    /\ f_rows \in UNION {[1..k -> FreqRows] : k \in 0..MaxFreqRows}
    /\ primary_keyword = <<>>
    /\ kw_df = <<>>
    /\ top_k = [l \in {"Negative", "Positive"} |-> {}]
    /\ fpc = "rows"

\* the Overview run on the rows: the keyword charts of the two sentiment
\* classes and the primary_keyword column
OverviewKeywords ==
    /\ fpc = "rows"
    /\ \E emptyRaises \in BOOLEAN :
          LET df == KwDf(f_rows, emptyRaises)
          IN  /\ kw_df' = df
              /\ \E neg \in TopK(ValueCounts(df, "Negative")),
                    pos \in TopK(ValueCounts(df, "Positive")) :
                    top_k' = [l \in {"Negative", "Positive"} |->
                                 IF l = "Negative" THEN neg ELSE pos]
              /\ primary_keyword' =
                    [k \in 1..Len(f_rows) |->
                        get_first_kw_robust(f_rows[k].keywords, emptyRaises)]
    /\ fpc' = "shown"
    /\ UNCHANGED <<f_rows, notFreq>>

FreqNext == OverviewKeywords

\* the keywords of the list display or the comma-separated text of a
\* cell, as written
KeywordsOfCell(cell) ==
    { w \in FreqWords :
        \E l \in UNION {[1..k -> FreqWords] : k \in 1..2} :
            /\ cell \in {StrVal(Repr(l)), StrVal(Join(l, <<COMMA>>))}
            /\ \E k \in 1..Len(l) : l[k] = w }

\* C21: no keyword of the stop-list is in the keyword-frequency output of
\* a sentiment class, and no keyword whose consolidated label is in the
\* stop-list: every keyword of the output is the consolidated form of a
\* keyword of a row of the class, and that form is not a stop keyword.
C21_NoStopKeywordInFrequencies ==
    fpc = "shown" =>
        /\ \A k \in 1..Len(kw_df) :
              ~(kw_df[k].kw_list.t = "str" /\ kw_df[k].kw_list.s \in STOP_KEYWORDS)
        /\ \A label \in {"Negative", "Positive"} : \A e \in top_k[label] :
              /\ e.keyword.s \notin STOP_KEYWORDS
              /\ e.count > 0
              /\ \E i \in 1..Len(f_rows) :
                    /\ f_rows[i].sentiment_label = label
                    /\ \E w \in KeywordsOfCell(f_rows[i].keywords) :
                          /\ normalize_kw_display(StrVal(w)) = e.keyword
                          /\ Strip(w) \notin STOP_KEYWORDS
                          /\ w \notin {W_GAME, W_GOOD}

\* a row holds a keyword consolidated to a stop label next to an
\* ordinary one: only the ordinary one is charted
C21_Witness ==
    /\ fpc = "shown"
    /\ f_rows = <<[sentiment_label |-> "Negative",
                   keywords |-> StrVal(Repr(<<W_GAME, W_BOSS>>))]>>
    /\ top_k["Negative"] = {[keyword |-> StrVal(W_BOSS), count |-> 1]}
    /\ top_k["Positive"] = {}

\* C22: no keyword sequence holds an empty string: none of the exploded
\* keywords counted for the frequencies is the empty string, and the
\* primary keyword of a row is never the empty string.
C22_NoEmptyKeyword ==
    fpc = "shown" =>
        /\ \A k \in 1..Len(kw_df) : kw_df[k].kw_list # StrVal(<<>>)
        /\ \A i \in 1..Len(primary_keyword) : primary_keyword[i] # StrVal(<<>>)

----------------------------------------------------------------------------
(* Main.load_data's cluster keywords (lines 89-109) and the Overview's     *)
(* cluster label (lines 164-170).  The dataset is written in runs of n     *)
(* equal reviews; a keyword counted n times is an entry [k, n].            *)

\* head(50)
SAMPLE_ROWS == 50
\* most_common(10)
INFO_KEYWORDS == 10
\* cluster_kws[cid][:3]
LABEL_KEYWORDS == 3

\* every row of the cluster in place of the first 50
HeadRuns_all(rows, left) == rows

RECURSIVE HeadRuns(_, _)
\* .head(left) of rows written in runs
HeadRuns(rows, left) ==
    IF rows = <<>> \/ left = 0 THEN <<>>
    ELSE IF Head(rows).n >= left THEN <<[Head(rows) EXCEPT !.n = left]>>
    ELSE <<Head(rows)>> \o HeadRuns(Tail(rows), left - Head(rows).n)

\* what one k_str adds to kws (lines 98-105): the elements of the list it
\* is the literal of, or else its own text
KeywordsOfStr(k_str) ==
    LET lit == LiteralEval(k_str.s)
    IN  IF lit.ok /\ lit.val.t = "list" THEN lit.val.items ELSE <<k_str>>

RECURSIVE Kws(_)
\* kws after the loop over sample["keywords"].dropna()
Kws(sample) ==
    IF sample = <<>> THEN <<>>
    ELSE (IF Head(sample).keywords = NaN THEN <<>>
          ELSE LET ks == KeywordsOfStr(Head(sample).keywords)
               IN  [e \in 1..Len(ks) |-> [k |-> ks[e], n |-> Head(sample).n]])
             \o Kws(Tail(sample))

RECURSIVE CounterKeys(_, _)
\* the keys of Counter(kws), in the order they were first met
CounterKeys(kws, seen) ==
    IF kws = <<>> THEN <<>>
    ELSE IF Head(kws).k \in seen THEN CounterKeys(Tail(kws), seen)
    ELSE <<Head(kws).k>> \o CounterKeys(Tail(kws), seen \cup {Head(kws).k})

RECURSIVE CounterGet(_, _)
\* Counter(kws)[key]
CounterGet(kws, key) ==
    IF kws = <<>> THEN 0
    ELSE (IF Head(kws).k = key THEN Head(kws).n ELSE 0) + CounterGet(Tail(kws), key)

RECURSIVE InsertCommon(_, _, _)
\* key put into keys sorted by descending count, after the keys of its count
InsertCommon(sorted, key, kws) ==
    IF sorted = <<>> THEN <<key>>
    ELSE IF CounterGet(kws, Head(sorted)) < CounterGet(kws, key)
    THEN <<key>> \o sorted
    ELSE <<Head(sorted)>> \o InsertCommon(Tail(sorted), key, kws)

RECURSIVE SortCommon(_, _)
SortCommon(keys, kws) ==
    IF keys = <<>> THEN <<>>
    ELSE InsertCommon(SortCommon(SubSeq(keys, 1, Len(keys) - 1), kws),
                      keys[Len(keys)], kws)

\* [k for k, v in Counter(kws).most_common(n)]: descending count, equal
\* counts in the order first met
MostCommon(kws, n) ==
    LET sorted == SortCommon(CounterKeys(kws, {}), kws)
    IN  SubSeq(sorted, 1, Min(n, Len(sorted)))

\* main_df["cluster"].unique() without "-1"
ClustersOf(rows) == {rows[i].cluster : i \in 1..Len(rows)} \ {NOISE}

\* cluster_info of load_data: empty when there is no keywords column
ClusterInfo(rows, hasKeywords) ==
    [cid \in (IF hasKeywords THEN ClustersOf(rows) ELSE {}) |->
        MostCommon(Kws(HeadRuns(RowsOfCluster(rows, cid), SAMPLE_ROWS)), INFO_KEYWORDS)]

CLUSTER_WORD == <<"C", "l", "u", "s", "t", "e", "r", SP>>

\* get_cluster_label (lines 166-169); the keywords are str
get_cluster_label(cid, cluster_kws) ==
    IF cid \in DOMAIN cluster_kws
    THEN LET top == SubSeq(cluster_kws[cid], 1, Min(LABEL_KEYWORDS, Len(cluster_kws[cid])))
         IN  Join([i \in 1..Len(top) |-> top[i].s], <<COMMA, SP>>)
    ELSE CLUSTER_WORD \o cid

\* keywords of the cells
L_A == <<"a">>
L_B == <<"b">>
L_C == <<"c">>
L_D == <<"d">>

\* the keyword lists of the cells
LabelLists ==
    { <<L_A>>, <<L_B>>, <<L_B, L_A>>, <<L_C, L_D>>, <<L_A, L_B, L_C, L_D>> }

\* a text that is no literal
L_TEXT == <<"a", COMMA, SP, "b">>

\* the cells: missing, list displays, and a text that is no literal
ClusterKeywordCells ==
    { NaN, StrVal(Repr(<<L_A>>)), StrVal(Repr(<<L_B, L_A>>)),
      StrVal(Repr(<<L_A, L_B, L_C, L_D>>)), StrVal(L_TEXT) }

\* runs of cluster 1, and one review of cluster 2 and of the noise cluster
LabelRuns ==
    [cluster : {<<"1">>}, keywords : ClusterKeywordCells, n : {1, 50}]
        \cup {[cluster |-> c, keywords |-> StrVal(Repr(<<L_A>>)), n |-> 1]
                 : c \in {<<"2">>, NOISE}}

\* 49 reviews of keyword a, one of b, and past the 50th 60 reviews with
\* the keywords c, d
PastTheSample ==
    << [cluster |-> <<"1">>, keywords |-> StrVal(Repr(<<L_A>>)), n |-> 49],
       [cluster |-> <<"1">>, keywords |-> StrVal(Repr(<<L_B>>)), n |-> 1],
       [cluster |-> <<"1">>, keywords |-> StrVal(Repr(<<L_C, L_D>>)), n |-> 60] >>

NoInfo == <<>>

LabelIdle ==
    /\ l_cols = FALSE
    /\ l_rows = <<>>
    /\ cluster_info = NoInfo
    /\ keywords_label = NoInfo
    /\ lbpc = "idle"

LabelInit ==
    /\ l_cols \in BOOLEAN
    /\ l_rows \in UNION {[1..k -> LabelRuns] : k \in 0..MaxLabelRuns} \cup {PastTheSample}
    /\ cluster_info = NoInfo
    /\ keywords_label = NoInfo
    /\ lbpc = "csv"

\* Main: load_data builds cluster_info and the session keeps it
\* (lines 89-109, 154)
MainClusterInfo ==
    /\ lbpc = "csv"
    /\ cluster_info' = ClusterInfo(l_rows, l_cols)
    /\ lbpc' = "loaded"
    /\ UNCHANGED <<l_cols, l_rows, keywords_label, notLabel>>

\* the Overview labels each cluster of the aggregate (lines 164-170)
OverviewClusterLabels ==
    /\ lbpc = "loaded"
    /\ keywords_label' =
          [cid \in ClustersOf(l_rows) |-> get_cluster_label(cid, cluster_info)]
    /\ lbpc' = "shown"
    /\ UNCHANGED <<l_cols, l_rows, cluster_info, notLabel>>

LabelNext ==
    \/ MainClusterInfo
    \/ OverviewClusterLabels

\* the keywords of the cell of run r: those of its list display, its
\* whole text when it is no list display, none when it is missing
KeywordList(r) ==
    LET cell == l_rows[r].keywords
    IN  IF cell = NaN THEN <<>>
        ELSE IF \E l \in LabelLists : cell = StrVal(Repr(l))
        THEN CHOOSE l \in LabelLists : cell = StrVal(Repr(l))
        ELSE <<cell.s>>

RECURSIVE RecordsUpTo(_, _)
\* the records of cluster cid in the runs 1..r
RecordsUpTo(cid, r) ==
    IF r = 0 THEN 0
    ELSE (IF l_rows[r].cluster = cid THEN l_rows[r].n ELSE 0) + RecordsUpTo(cid, r - 1)

\* how many records of run r are among the first 50 of its cluster
Sampled(r) ==
    LET before == RecordsUpTo(l_rows[r].cluster, r - 1)
    IN  IF before >= 50 THEN 0
        ELSE IF l_rows[r].n <= 50 - before THEN l_rows[r].n ELSE 50 - before

\* the places <<run, position>> where keyword kw stands within the first
\* 50 records of cluster cid
Places(cid, kw) ==
    { p \in (1..Len(l_rows)) \X (1..4) :
        /\ l_rows[p[1]].cluster = cid
        /\ Sampled(p[1]) > 0
        /\ p[2] <= Len(KeywordList(p[1]))
        /\ KeywordList(p[1])[p[2]] = kw }

RECURSIVE Frequency(_)
\* the records counted over a set of places
Frequency(places) ==
    IF places = {} THEN 0
    ELSE LET p == CHOOSE q \in places : TRUE
         IN  Sampled(p[1]) + Frequency(places \ {p})

PlaceBefore(p, q) == p[1] < q[1] \/ (p[1] = q[1] /\ p[2] < q[2])

\* keyword a ranks before keyword b: more frequent, or as frequent and
\* met first
RanksBefore(cid, a, b) ==
    LET fa == Frequency(Places(cid, a))
        fb == Frequency(Places(cid, b))
    IN  \/ fa > fb
        \/ /\ fa = fb
           /\ \E p \in Places(cid, a) : \A q \in Places(cid, b) : PlaceBefore(p, q)

\* C25: the label of a cluster is made of the at most 3 most frequent
\* keywords among the keywords of the first 50 records of the cluster,
\* by descending frequency and, at equal frequency, in the order they are
\* met; records after the 50th have no part in it.
C25_LabelIsTop3OfFirst50 ==
    (lbpc = "shown" /\ l_cols) =>
        \A cid \in DOMAIN keywords_label :
            LET known == {kw \in {L_A, L_B, L_C, L_D, L_TEXT} : Places(cid, kw) # {}}
                m == IF Cardinality(known) < 3 THEN Cardinality(known) ELSE 3
            IN  \E top \in [1..m -> known] :
                    /\ \A i \in 1..m : \A j \in 1..m :
                          i < j => RanksBefore(cid, top[i], top[j])
                    /\ \A kw \in known \ {top[i] : i \in 1..m} :
                          \A i \in 1..m : RanksBefore(cid, top[i], kw)
                    /\ keywords_label[cid] = Join(top, <<COMMA, SP>>)

\* 49 reviews with keyword a and one with b are the first 50 of the
\* cluster; the 60 reviews after them hold c and d
C25_Witness ==
    /\ lbpc = "shown"
    /\ l_cols
    /\ l_rows = PastTheSample
    /\ keywords_label[<<"1">>] = <<"a", COMMA, SP, "b">>

----------------------------------------------------------------------------
(* The session: Main's navigation keys (lines 17-23) and date-driven load  *)
(* (lines 146-178), and the buttons that write the navigation keys: Raw    *)
(* Voice (pages/5, lines 240-244), Check Evidence (pages/4, lines          *)
(* 126-137) and Reset Context (pages/2, lines 65-74).  A session key holds *)
(* a Python value, or is absent.                                           *)

Absent == [t |-> "absent", s |-> <<>>, items |-> <<>>]
None == [t |-> "None", s |-> <<>>, items |-> <<>>]
\* the DataFrame read from a file of a date's folder
DfVal(date, file) == [t |-> "df", s |-> <<date, file>>, items |-> <<>>]
\* a date as the selectbox gives it
DateVal(date) == [t |-> "str", s |-> <<date>>, items |-> <<>>]

Dates == {"2025-12-09", "2025-12-10"}
\* subdirs.sort(reverse=True)[0]
LatestDate == "2025-12-10"

\* the versions of the trend table
NavVersions == {StrVal(<<"1", ".", "0">>), StrVal(<<"1", ".", "1">>)}

\* the review_ids cells of the diagnosis report: a list literal, a
\* damaged one, a missing value
ID_LIST == <<LBRACK, QUOTE, "r", "1", QUOTE, RBRACK>>
ID_DAMAGED == <<LBRACK, QUOTE, "r", "1", QUOTE>>
ReviewIdCells == {StrVal(ID_LIST), StrVal(ID_DAMAGED), NaN}

FolderContents ==
    [main : {"none", "analyzed.csv", "analyzed_refined.csv"},
     trend : BOOLEAN, diag : BOOLEAN]

\* load_data(folder_path) (lines 55-139): the keys of the dict returned
load_data(content, date) ==
    [dataframe |-> IF content.main = "none" THEN Absent ELSE DfVal(date, content.main),
     trend_df |-> IF content.trend THEN DfVal(date, "version_trend.csv") ELSE Absent,
     diagnosis_df |-> IF content.diag THEN DfVal(date, "diagnosis_report.csv") ELSE Absent]

\* loaded.get(key, None)
GetOrNone(v) == IF v = Absent THEN None ELSE v

\* lines 17-23 setting the keys on every run
NavInit_always(s) ==
    [s EXCEPT !.nav_cluster_id = None, !.nav_version = None,
              !.filter_review_ids = None]

\* lines 17-23: a navigation key that is absent becomes None
NavInit(s) ==
    [s EXCEPT !.nav_cluster_id = IF @ = Absent THEN None ELSE @,
              !.nav_version = IF @ = Absent THEN None ELSE @,
              !.filter_review_ids = IF @ = Absent THEN None ELSE @]

\* the load with current_date written whether or not a main file was found
MainExecution_dateAlways(s, loaded, selected) ==
    IF s.current_date = Absent \/ s.current_date # DateVal(selected)
    THEN IF loaded.dataframe # Absent
         THEN [s EXCEPT !.raw_df = loaded.dataframe,
                        !.clean_df = loaded.dataframe,
                        !.cluster_df = loaded.dataframe,
                        !.trend_df = GetOrNone(loaded.trend_df),
                        !.diagnosis_df = GetOrNone(loaded.diagnosis_df),
                        !.current_date = DateVal(selected)]
         ELSE [s EXCEPT !.current_date = DateVal(selected)]
    ELSE s

\* lines 146-178: the load when the date changed
MainExecution(s, loaded, selected) ==
    IF s.current_date = Absent \/ s.current_date # DateVal(selected)
    THEN IF loaded.dataframe # Absent
         THEN [s EXCEPT !.raw_df = loaded.dataframe,
                        !.clean_df = loaded.dataframe,
                        !.cluster_df = loaded.dataframe,
                        !.trend_df = GetOrNone(loaded.trend_df),
                        !.diagnosis_df = GetOrNone(loaded.diagnosis_df),
                        !.current_date = DateVal(selected)]
         ELSE s
    ELSE s

\* the truth value of a session value
Truthy(v) ==
    /\ v \notin {Absent, None}
    /\ ~(v.t = "str" /\ v.s = <<>>)
    /\ ~(v.t = "list" /\ v.items = <<>>)

NoEvent == [kind |-> "none", arg |-> None]

EmptySession ==
    [nav_cluster_id |-> Absent, nav_version |-> Absent, filter_review_ids |-> Absent,
     current_date |-> Absent, raw_df |-> Absent, clean_df |-> Absent,
     cluster_df |-> Absent, trend_df |-> Absent, diagnosis_df |-> Absent]

SessionIdle ==
    /\ folders = <<>>
    /\ selected_date = ""
    /\ session = EmptySession
    /\ event = NoEvent

SessionInit ==
    /\ folders \in [Dates -> FolderContents]
    /\ selected_date = LatestDate
    /\ session = EmptySession
    /\ event = NoEvent

\* a run of Main with a date chosen in the sidebar
MainRun ==
    /\ \E selected \in Dates :
          /\ selected_date' = selected
          /\ session' = MainExecution(NavInit(session),
                                      load_data(folders[selected], selected), selected)
          /\ event' = [kind |-> "main", arg |-> DateVal(selected)]
    /\ UNCHANGED <<folders, notSession>>

\* Version Trends: the Raw Voice button of a version's tab.  The page
\* shows the tabs when the session holds a trend table.
RawVoice ==
    /\ session.trend_df.t = "df"
    /\ \E ver \in NavVersions :
          /\ session' = [session EXCEPT !.nav_version = ver,
                                        !.filter_review_ids = None]
          /\ event' = [kind |-> "raw_voice", arg |-> ver]
    /\ UNCHANGED <<folders, selected_date, notSession>>

\* Diagnosis Report: the Check Evidence button of a card.  A review_ids
\* text that is no literal raises inside the try: the error is shown
\* and nothing is written.
CheckEvidence ==
    /\ session.current_date # Absent
    /\ session.diagnosis_df.t = "df"
    /\ \E r_ids_str \in ReviewIdCells :
          LET lit == LiteralEval(r_ids_str.s)
          IN  /\ event' = [kind |-> IF r_ids_str.t = "str" /\ ~lit.ok
                                    THEN "nav_error" ELSE "check_evidence",
                           arg |-> r_ids_str]
              /\ session' =
                    IF r_ids_str.t # "str"
                    THEN [session EXCEPT !.filter_review_ids = r_ids_str]
                    ELSE IF lit.ok
                    THEN [session EXCEPT !.filter_review_ids = lit.val]
                    ELSE session
    /\ UNCHANGED <<folders, selected_date, notSession>>

\* Review Explorer: the Reset Context button, shown when the page has
\* data and a navigation key is set.  With a filter_review_ids that has
\* no len() the page fails before the button.
ResetContext ==
    /\ folders[LatestDate].main # "none"
    /\ Truthy(session.nav_version) \/ Truthy(session.filter_review_ids)
    /\ ~(Truthy(session.filter_review_ids) /\ session.filter_review_ids.t = "nan")
    /\ session' = [session EXCEPT !.nav_version = None,
                                  !.filter_review_ids = None]
    /\ event' = [kind |-> "reset", arg |-> None]
    /\ UNCHANGED <<folders, selected_date, notSession>>

SessionNext ==
    \/ MainRun
    \/ RawVoice
    \/ CheckEvidence
    \/ ResetContext

----------------------------------------------------------------------------
(* Claims about the session *)

DataKeys == {"raw_df", "clean_df", "cluster_df", "trend_df", "diagnosis_df"}

\* current_date names the date whose main file the three data keys hold
CurrentDateNamesTheData ==
    IF session.current_date = Absent
    THEN /\ session.raw_df = Absent
         /\ session.clean_df = Absent
         /\ session.cluster_df = Absent
    ELSE \E d \in Dates :
            /\ session.current_date = DateVal(d)
            /\ folders[d].main # "none"
            /\ session.raw_df = DfVal(d, folders[d].main)
            /\ session.clean_df = session.raw_df
            /\ session.cluster_df = session.raw_df

\* a run of Main whose date has no main file leaves current_date and the
\* data keys as they were (every key, once the navigation keys exist),
\* and current_date differs from the selection, so the next run loads
FailedLoadKeepsSession ==
    (event'.kind = "main" /\ folders[selected_date'].main = "none") =>
        /\ session'.current_date = session.current_date
        /\ \A k \in DataKeys : session'[k] = session[k]
        /\ (session.nav_version # Absent => session' = session)
        /\ session'.current_date # DateVal(selected_date')

\* C28: through any sequence of date selections, current_date names the
\* date whose dataset raw_df, clean_df and cluster_df hold, the three being
\* the same dataset; a load that finds no main file changes no session key,
\* current_date included, so that the load is tried again on the next run.
C28_CurrentDateNamesLoadedData ==
    [](CurrentDateNamesTheData) /\ [][FailedLoadKeepsSession]_vars

\* the older date is loaded, then the newer one, which has no main file,
\* is selected
C28_Witness ==
    /\ event = [kind |-> "main", arg |-> DateVal("2025-12-10")]
    /\ folders["2025-12-10"].main = "none"
    /\ session.current_date = DateVal("2025-12-09")
    /\ session.raw_df = DfVal("2025-12-09", "analyzed_refined.csv")


\* Raw Voice of a version leaves nav_version that version and
\* filter_review_ids None
RawVoiceSetsVersion ==
    event'.kind = "raw_voice" =>
        /\ session'.nav_version = event'.arg
        /\ session'.filter_review_ids = None

\* the review ids a review_ids cell stands for: the value of its literal,
\* or the cell itself when it is no text
CardIds(cell) == IF cell.t = "str" THEN LiteralEval(cell.s).val ELSE cell

\* every press of Check Evidence leaves filter_review_ids set
CheckEvidenceAlwaysSets ==
    event'.kind \in {"check_evidence", "nav_error"} =>
        /\ session'.filter_review_ids \notin {Absent, None}
        /\ session'.nav_version = session.nav_version

\* Check Evidence sets filter_review_ids to the review ids of the card
\* and leaves nav_version as it was; when the review_ids text cannot be
\* read the press changes no key
CheckEvidenceSetsIds ==
    /\ event'.kind = "check_evidence" =>
          /\ session'.filter_review_ids = CardIds(event'.arg)
          /\ session'.nav_version = session.nav_version
    /\ event'.kind = "nav_error" => session' = session

\* Reset Context sets both keys to None
ResetClearsBoth ==
    event'.kind = "reset" =>
        /\ session'.nav_version = None
        /\ session'.filter_review_ids = None

\* a run of Main leaves a navigation key that is set as it is
MainKeepsNavKeys ==
    event'.kind = "main" =>
        /\ session.nav_version # Absent => session'.nav_version = session.nav_version
        /\ session.filter_review_ids # Absent =>
              session'.filter_review_ids = session.filter_review_ids
        /\ session.nav_cluster_id # Absent =>
              session'.nav_cluster_id = session.nav_cluster_id

\* once both keys are None they stay None until Raw Voice or Check
\* Evidence is pressed
NoneUntilNavigation ==
    (/\ session.nav_version = None
     /\ session.filter_review_ids = None
     /\ event'.kind \notin {"raw_voice", "check_evidence"}) =>
        /\ session'.nav_version = None
        /\ session'.filter_review_ids = None

\* C29 as stated: Raw Voice for a version leaves nav_version that version
\* and filter_review_ids None whatever came before; every press of Check
\* Evidence sets filter_review_ids and leaves nav_version; Reset Context
\* sets both to None; a run of Main never overwrites a navigation key that
\* is set, so after a reset both stay None until a navigation button is
\* pressed.
C29_NavigationKeysAsStated ==
    [][/\ RawVoiceSetsVersion
       /\ CheckEvidenceAlwaysSets
       /\ ResetClearsBoth
       /\ MainKeepsNavKeys
       /\ NoneUntilNavigation]_vars

\* C29: Raw Voice for a version leaves nav_version that version and
\* filter_review_ids None whatever came before; Check Evidence sets
\* filter_review_ids to the card's review ids and leaves nav_version,
\* unless the review_ids text cannot be read, and then no key changes;
\* Reset Context sets both to None; a run of Main never overwrites a
\* navigation key that is set, so after a reset both stay None until a
\* navigation button is pressed.
C29_NavigationKeys ==
    [][/\ RawVoiceSetsVersion
       /\ CheckEvidenceSetsIds
       /\ ResetClearsBoth
       /\ MainKeepsNavKeys
       /\ NoneUntilNavigation]_vars

\* Raw Voice of 1.1, then Check Evidence on a card whose review_ids text
\* is cut short: the version is still there and no review ids are set
C29_Witness ==
    /\ event = [kind |-> "nav_error", arg |-> StrVal(ID_DAMAGED)]
    /\ session.nav_version = StrVal(<<"1", ".", "1">>)
    /\ session.filter_review_ids = None

----------------------------------------------------------------------------
(* Specifications *)

InitList ==
    ListInit /\ ExplorerIdle /\ SentIdle /\ KwIdle /\ ClusterIdle /\
    TopicIdle /\ VersionIdle /\ DeltaIdle /\ ImpactIdle /\ FreqIdle /\
    LabelIdle /\ SessionIdle

SpecList == InitList /\ [][ListNext]_vars

InitExplorer ==
    ExplorerInit /\ ListIdle /\ SentIdle /\ KwIdle /\ ClusterIdle /\
    TopicIdle /\ VersionIdle /\ DeltaIdle /\ ImpactIdle /\ FreqIdle /\
    LabelIdle /\ SessionIdle

SpecExplorer == InitExplorer /\ [][ExplorerNext]_vars

InitSent ==
    SentInit /\ ListIdle /\ ExplorerIdle /\ KwIdle /\ ClusterIdle /\
    TopicIdle /\ VersionIdle /\ DeltaIdle /\ ImpactIdle /\ FreqIdle /\
    LabelIdle /\ SessionIdle

SpecSent == InitSent /\ [][SentNext]_vars

InitKw ==
    KwInit /\ ListIdle /\ ExplorerIdle /\ SentIdle /\ ClusterIdle /\
    TopicIdle /\ VersionIdle /\ DeltaIdle /\ ImpactIdle /\ FreqIdle /\
    LabelIdle /\ SessionIdle

SpecKw == InitKw /\ [][KwNext]_vars

InitCluster ==
    ClusterInit /\ ListIdle /\ ExplorerIdle /\ SentIdle /\ KwIdle /\
    TopicIdle /\ VersionIdle /\ DeltaIdle /\ ImpactIdle /\ FreqIdle /\
    LabelIdle /\ SessionIdle

SpecCluster == InitCluster /\ [][ClusterNext]_vars

InitTopic ==
    TopicInit /\ ListIdle /\ ExplorerIdle /\ SentIdle /\ KwIdle /\
    ClusterIdle /\ VersionIdle /\ DeltaIdle /\ ImpactIdle /\ FreqIdle /\
    LabelIdle /\ SessionIdle

SpecTopic == InitTopic /\ [][TopicNext]_vars

InitVersion ==
    VersionInit /\ ListIdle /\ ExplorerIdle /\ SentIdle /\ KwIdle /\
    ClusterIdle /\ TopicIdle /\ DeltaIdle /\ ImpactIdle /\ FreqIdle /\
    LabelIdle /\ SessionIdle

SpecVersion == InitVersion /\ [][VersionNext]_vars

InitDelta ==
    DeltaInit /\ ListIdle /\ ExplorerIdle /\ SentIdle /\ KwIdle /\
    ClusterIdle /\ TopicIdle /\ VersionIdle /\ ImpactIdle /\ FreqIdle /\
    LabelIdle /\ SessionIdle

SpecDelta == InitDelta /\ [][DeltaNext]_vars

InitImpact ==
    ImpactInit /\ ListIdle /\ ExplorerIdle /\ SentIdle /\ KwIdle /\
    ClusterIdle /\ TopicIdle /\ VersionIdle /\ DeltaIdle /\ FreqIdle /\
    LabelIdle /\ SessionIdle

SpecImpact == InitImpact /\ [][ImpactNext]_vars

InitFreq ==
    FreqInit /\ ListIdle /\ ExplorerIdle /\ SentIdle /\ KwIdle /\
    ClusterIdle /\ TopicIdle /\ VersionIdle /\ DeltaIdle /\ ImpactIdle /\
    LabelIdle /\ SessionIdle

SpecFreq == InitFreq /\ [][FreqNext]_vars

InitLabel ==
    LabelInit /\ ListIdle /\ ExplorerIdle /\ SentIdle /\ KwIdle /\
    ClusterIdle /\ TopicIdle /\ VersionIdle /\ DeltaIdle /\ ImpactIdle /\
    FreqIdle /\ SessionIdle

SpecLabel == InitLabel /\ [][LabelNext]_vars

InitSession ==
    SessionInit /\ ListIdle /\ ExplorerIdle /\ SentIdle /\ KwIdle /\
    ClusterIdle /\ TopicIdle /\ VersionIdle /\ DeltaIdle /\ ImpactIdle /\
    FreqIdle /\ LabelIdle

SpecSession == InitSession /\ [][SessionNext]_vars

====
